---- MODULE Spec2Model ----
(***************************************************************************)
(* SimpleDB: the storage engine (simpledb/storage.py) and the query        *)
(* executor (simpledb/executor.py) as a state machine.                     *)
(*                                                                         *)
(* Python values are tagged records, text is a sequence of one-character   *)
(* strings, a dict is a function, a row slot is None (a tombstone) or      *)
(* Some(row).  Row positions are 0-based as in the source.  An operation   *)
(* that can raise returns a record whose field `raised` names the          *)
(* exception class ("none" when it returns normally).                      *)
(***************************************************************************)
EXTENDS Integers, Sequences, FiniteSets, TLC

VARIABLES tables, db_file, snapshot, call, result

vars == <<tables, db_file, snapshot, call, result>>

(***************************************************************************)
(* Bounds of the model.                                                    *)
(***************************************************************************)
MaxRows == 2

(***************************************************************************)
(* Values.                                                                 *)
(***************************************************************************)
Null == [t |-> "null", n |-> 0, s |-> <<>>]

IntV(n) == [t |-> "int", n |-> n, s |-> <<>>]

StrV(s) == [t |-> "str", n |-> 0, s |-> s]

BoolV(b) == [t |-> "bool", n |-> IF b THEN 1 ELSE 0, s |-> <<>>]

\* Python's ==: bool is a subclass of int (True == 1), None equals only None.
PyEq(a, b) ==
    IF a.t \in {"int", "bool"} /\ b.t \in {"int", "bool"} THEN a.n = b.n
    ELSE a.t = b.t /\ a.n = b.n /\ a.s = b.s

\* The dict key a value hashes to: equal values share one key.
Key(v) == IF v.t = "bool" THEN IntV(v.n) ELSE v

Digits == <<"0", "1", "2", "3", "4", "5", "6", "7", "8", "9">>

LowerCase == <<"a", "b", "c", "d", "e", "f", "g", "h", "i", "j", "k", "l", "m",
               "n", "o", "p", "q", "r", "s", "t", "u", "v", "w", "x", "y", "z">>

UpperCase == <<"A", "B", "C", "D", "E", "F", "G", "H", "I", "J", "K", "L", "M",
               "N", "O", "P", "Q", "R", "S", "T", "U", "V", "W", "X", "Y", "Z">>

Range(f) == {f[i] : i \in DOMAIN f}

IsDigit(c) == c \in Range(Digits)

DigitVal(c) == (CHOOSE i \in DOMAIN Digits : Digits[i] = c) - 1

Front(s) == SubSeq(s, 1, Len(s) - 1)

RECURSIVE DigitsVal(_)
DigitsVal(s) ==
    IF s = <<>> THEN 0 ELSE DigitsVal(Front(s)) * 10 + DigitVal(s[Len(s)])

\* int(text): an optional sign, then decimal digits.
IntBody(s) == IF s # <<>> /\ s[1] \in {"-", "+"} THEN Tail(s) ELSE s

IntParses(s) == IntBody(s) # <<>> /\ \A i \in DOMAIN IntBody(s) : IsDigit(IntBody(s)[i])

IntOf(s) == IF s # <<>> /\ s[1] = "-" THEN 0 - DigitsVal(IntBody(s)) ELSE DigitsVal(IntBody(s))

\* int(text) as a value.  Python's int has no width: an integer of ten or
\* more digits, which the checker's own integers cannot hold, is carried by
\* its sign and decimal digits.
PyInt(s) ==
    IF Len(IntBody(s)) < 10 THEN IntV(IntOf(s))
    ELSE [t |-> "int", n |-> 0, s |-> IF s[1] = "-" THEN s ELSE IntBody(s)]

RECURSIVE NatStr(_)
NatStr(n) == IF n < 10 THEN <<Digits[n + 1]>> ELSE NatStr(n \div 10) \o <<Digits[(n % 10) + 1]>>

\* str(value) for the non-text values.
PyStr(v) ==
    CASE v.t = "str" -> v.s
      [] v.t = "int" -> IF v.n < 0 THEN <<"-">> \o NatStr(0 - v.n) ELSE NatStr(v.n)
      [] v.t = "bool" -> IF v.n = 1 THEN <<"T", "r", "u", "e">> ELSE <<"F", "a", "l", "s", "e">>
      [] OTHER -> <<"N", "o", "n", "e">>

UpperChar(c) ==
    IF c \in Range(LowerCase)
    THEN UpperCase[CHOOSE i \in DOMAIN LowerCase : LowerCase[i] = c]
    ELSE c

Upper(s) == [i \in DOMAIN s |-> UpperChar(s[i])]

(***************************************************************************)
(* Schema.                                                                 *)
(***************************************************************************)
NoLength == -1

DefaultLength == 255

Column(name, type, length, constraints) ==
    [name |-> name, type |-> type, length |-> length, constraints |-> constraints]

None == <<>>

Some(row) == <<row>>

NoPrimaryKey == ""

NoRowIndex == -1

ColumnNames(columns) == {columns[i].name : i \in DOMAIN columns}

\* Table.__init__
Table(name, columns) ==
    LET pks == {i \in DOMAIN columns : "PRIMARY KEY" \in columns[i].constraints}
        uniq == {i \in DOMAIN columns : "UNIQUE" \in columns[i].constraints}
        nn == {i \in DOMAIN columns : "NOT NULL" \in columns[i].constraints}
        last_pk == CHOOSE i \in pks : \A j \in pks : j <= i
    IN  [name |-> name,
         columns |-> columns,
         rows |-> <<>>,
         indexes |-> [c \in {columns[i].name : i \in pks \cup uniq} |-> <<>>],
         primary_key |-> IF pks = {} THEN NoPrimaryKey ELSE columns[last_pk].name,
         unique_columns |-> {columns[i].name : i \in uniq},
         not_null_columns |-> {columns[i].name : i \in pks \cup nn}]

\* Table.get_column: the first column of that name; has_column is its truth value.
has_column(T, name) == name \in ColumnNames(T.columns)

get_column(T, name) ==
    T.columns[CHOOSE i \in DOMAIN T.columns :
                /\ T.columns[i].name = name
                /\ \A j \in DOMAIN T.columns : T.columns[j].name = name => i <= j]

\* dict.get(key): None when the key is absent.
Get(d, k) == IF k \in DOMAIN d THEN d[k] ELSE Null

\* d[key] = value and del d[key] on an index dict.
IndexHas(idx, v) == Key(v) \in DOMAIN idx

IndexPut(idx, v, p) == [k \in DOMAIN idx \cup {Key(v)} |-> IF k = Key(v) THEN p ELSE idx[k]]

IndexDel(idx, v) == [k \in DOMAIN idx \ {Key(v)} |-> idx[k]]

Ok(v) == [raised |-> "none", value |-> v]

Raise(kind) == [raised |-> kind, value |-> Null]

\* Table.validate_value
validate_value(column, value) ==
    IF value = Null THEN Ok(Null)
    ELSE CASE column.type = "INT" ->
                IF value.t \in {"int", "bool"} THEN Ok(value)
                ELSE IF IntParses(value.s) THEN Ok(PyInt(value.s))
                ELSE Raise("DataTypeError")
           [] column.type = "VARCHAR" ->
                LET text == PyStr(value)
                    max_length == IF column.length = NoLength THEN DefaultLength ELSE column.length
                IN  IF Len(text) > max_length THEN Raise("DataTypeError") ELSE Ok(StrV(text))
           [] column.type = "BOOLEAN" ->
                IF value.t = "bool" THEN Ok(value)
                ELSE IF value.t = "str" /\ Upper(value.s) \in {<<"T", "R", "U", "E">>, <<"1">>, <<"Y", "E", "S">>}
                     THEN Ok(BoolV(TRUE))
                ELSE IF value.t = "str" /\ Upper(value.s) \in {<<"F", "A", "L", "S", "E">>, <<"0">>, <<"N", "O">>}
                     THEN Ok(BoolV(FALSE))
                ELSE Raise("DataTypeError")
           [] OTHER -> Raise("DataTypeError")

\* validate_row without its NOT NULL loop.
validate_row_skipping_not_null(T, row, row_index) ==
    IF \E k \in DOMAIN row : ~has_column(T, k) THEN "ColumnNotFoundError"
    ELSE IF /\ T.primary_key # NoPrimaryKey
            /\ Get(row, T.primary_key) # Null
            /\ IndexHas(T.indexes[T.primary_key], Get(row, T.primary_key))
            /\ \/ row_index = NoRowIndex
               \/ T.indexes[T.primary_key][Key(Get(row, T.primary_key))] # row_index
         THEN "PrimaryKeyViolation"
    ELSE IF \E c \in T.unique_columns :
              /\ c \in DOMAIN row
              /\ row[c] # Null
              /\ c \in DOMAIN T.indexes
              /\ IndexHas(T.indexes[c], row[c])
              /\ \/ row_index = NoRowIndex
                 \/ T.indexes[c][Key(row[c])] # row_index
         THEN "UniqueConstraintViolation"
    ELSE "none"

\* validate_row with its UNIQUE loop ahead of the NOT NULL loop.
validate_row_checking_unique_first(T, row, row_index) ==
    IF \E k \in DOMAIN row : ~has_column(T, k) THEN "ColumnNotFoundError"
    ELSE IF \E c \in T.unique_columns :
              /\ c \in DOMAIN row
              /\ row[c] # Null
              /\ c \in DOMAIN T.indexes
              /\ IndexHas(T.indexes[c], row[c])
              /\ \/ row_index = NoRowIndex
                 \/ T.indexes[c][Key(row[c])] # row_index
         THEN "UniqueConstraintViolation"
    ELSE IF \E c \in T.not_null_columns : Get(row, c) = Null THEN "NotNullViolation"
    ELSE IF /\ T.primary_key # NoPrimaryKey
            /\ Get(row, T.primary_key) # Null
            /\ IndexHas(T.indexes[T.primary_key], Get(row, T.primary_key))
            /\ \/ row_index = NoRowIndex
               \/ T.indexes[T.primary_key][Key(Get(row, T.primary_key))] # row_index
         THEN "PrimaryKeyViolation"
    ELSE "none"

\* Table.validate_row: the exception it raises, "none" when the row is valid.
validate_row(T, row, row_index) ==
    IF \E k \in DOMAIN row : ~has_column(T, k) THEN "ColumnNotFoundError"
    ELSE IF \E c \in T.not_null_columns : Get(row, c) = Null THEN "NotNullViolation"
    ELSE IF /\ T.primary_key # NoPrimaryKey
            /\ Get(row, T.primary_key) # Null
            /\ IndexHas(T.indexes[T.primary_key], Get(row, T.primary_key))
            /\ \/ row_index = NoRowIndex
               \/ T.indexes[T.primary_key][Key(Get(row, T.primary_key))] # row_index
         THEN "PrimaryKeyViolation"
    ELSE IF \E c \in T.unique_columns :
              /\ c \in DOMAIN row
              /\ row[c] # Null
              /\ c \in DOMAIN T.indexes
              /\ IndexHas(T.indexes[c], row[c])
              /\ \/ row_index = NoRowIndex
                 \/ T.indexes[c][Key(row[c])] # row_index
         THEN "UniqueConstraintViolation"
    ELSE "none"

Returned(T, ret) == [raised |-> "none", table |-> T, ret |-> ret]

Raised(T, kind) == [raised |-> kind, table |-> T, ret |-> NoRowIndex]

\* insert_row storing the row in the first tombstoned slot when there is one.
insert_row_reusing_tombstone(T, values) ==
    LET names == ColumnNames(T.columns)
        coerced == [c \in names |-> validate_value(get_column(T, c), Get(values, c))]
        row == [c \in names |-> coerced[c].value]
        free == {p \in 0 .. Len(T.rows) - 1 : T.rows[p + 1] = None}
        row_index == IF free = {} THEN Len(T.rows) ELSE CHOOSE p \in free : \A q \in free : p <= q
    IN  IF \E c \in names : coerced[c].raised # "none" THEN Raised(T, "DataTypeError")
        ELSE IF validate_row(T, row, NoRowIndex) # "none"
             THEN Raised(T, validate_row(T, row, NoRowIndex))
        ELSE Returned([T EXCEPT !.rows = IF free = {} THEN Append(T.rows, Some(row))
                                         ELSE [T.rows EXCEPT ![row_index + 1] = Some(row)],
                                !.indexes = [c \in DOMAIN T.indexes |->
                                               IF row[c] # Null
                                               THEN IndexPut(T.indexes[c], row[c], row_index)
                                               ELSE T.indexes[c]]],
                      row_index)

\* insert_row appending the row before it validates it.
insert_row_appending_first(T, values) ==
    LET names == ColumnNames(T.columns)
        coerced == [c \in names |-> validate_value(get_column(T, c), Get(values, c))]
        row == [c \in names |-> coerced[c].value]
        row_index == Len(T.rows)
        appended == [T EXCEPT !.rows = Append(T.rows, Some(row))]
    IN  IF \E c \in names : coerced[c].raised # "none" THEN Raised(T, "DataTypeError")
        ELSE IF validate_row(T, row, NoRowIndex) # "none"
             THEN Raised(appended, validate_row(T, row, NoRowIndex))
        ELSE Returned([appended EXCEPT !.indexes = [c \in DOMAIN T.indexes |->
                                                      IF row[c] # Null
                                                      THEN IndexPut(T.indexes[c], row[c], row_index)
                                                      ELSE T.indexes[c]]],
                      row_index)

\* Table.insert_row
insert_row(T, values) ==
    LET names == ColumnNames(T.columns)
        coerced == [c \in names |-> validate_value(get_column(T, c), Get(values, c))]
        row == [c \in names |-> coerced[c].value]
        row_index == Len(T.rows)
    IN  IF \E c \in names : coerced[c].raised # "none" THEN Raised(T, "DataTypeError")
        ELSE IF validate_row(T, row, NoRowIndex) # "none"
             THEN Raised(T, validate_row(T, row, NoRowIndex))
        ELSE Returned([T EXCEPT !.rows = Append(T.rows, Some(row)),
                                !.indexes = [c \in DOMAIN T.indexes |->
                                               IF row[c] # Null
                                               THEN IndexPut(T.indexes[c], row[c], row_index)
                                               ELSE T.indexes[c]]],
                      row_index)

\* The assignment loop of update_row: updates is the dict's items in order.
RECURSIVE apply_updates(_, _, _)
apply_updates(T, new_row, updates) ==
    IF updates = <<>> THEN [raised |-> "none", row |-> new_row]
    ELSE LET col_name == updates[1][1]
             value == updates[1][2]
         IN  IF ~has_column(T, col_name) THEN [raised |-> "ColumnNotFoundError", row |-> new_row]
             ELSE LET v == validate_value(get_column(T, col_name), value)
                  IN  IF v.raised # "none" THEN [raised |-> v.raised, row |-> new_row]
                      ELSE apply_updates(T,
                                         [c \in DOMAIN new_row \cup {col_name} |->
                                            IF c = col_name THEN v.value ELSE new_row[c]],
                                         Tail(updates))

\* update_row removing the old index entries before it validates the new row.
update_row_unindexing_first(T, row_index, updates) ==
    IF row_index < 0 \/ row_index >= Len(T.rows) THEN Returned(T, NoRowIndex)
    ELSE IF T.rows[row_index + 1] = None THEN Raised(T, "AttributeError")
    ELSE LET old_row == T.rows[row_index + 1][1]
             applied == apply_updates(T, old_row, updates)
             new_row == applied.row
             removed == [c \in DOMAIN T.indexes |->
                           IF Get(old_row, c) # Null /\ IndexHas(T.indexes[c], Get(old_row, c))
                           THEN IndexDel(T.indexes[c], Get(old_row, c))
                           ELSE T.indexes[c]]
             unindexed == [T EXCEPT !.indexes = removed]
         IN  IF applied.raised # "none" THEN Raised(T, applied.raised)
             ELSE IF validate_row(unindexed, new_row, row_index) # "none"
                  THEN Raised(unindexed, validate_row(unindexed, new_row, row_index))
             ELSE Returned([T EXCEPT !.rows[row_index + 1] = Some(new_row),
                                     !.indexes = [c \in DOMAIN T.indexes |->
                                                    IF Get(new_row, c) # Null
                                                    THEN IndexPut(removed[c], Get(new_row, c), row_index)
                                                    ELSE removed[c]]],
                           NoRowIndex)

\* update_row leaving the old values of the row in the indexes.
update_row_keeping_old_keys(T, row_index, updates) ==
    IF row_index < 0 \/ row_index >= Len(T.rows) THEN Returned(T, NoRowIndex)
    ELSE IF T.rows[row_index + 1] = None THEN Raised(T, "AttributeError")
    ELSE LET old_row == T.rows[row_index + 1][1]
             applied == apply_updates(T, old_row, updates)
             new_row == applied.row
         IN  IF applied.raised # "none" THEN Raised(T, applied.raised)
             ELSE IF validate_row(T, new_row, row_index) # "none"
                  THEN Raised(T, validate_row(T, new_row, row_index))
             ELSE Returned([T EXCEPT !.rows[row_index + 1] = Some(new_row),
                                     !.indexes = [c \in DOMAIN T.indexes |->
                                                    IF Get(new_row, c) # Null
                                                    THEN IndexPut(T.indexes[c], Get(new_row, c), row_index)
                                                    ELSE T.indexes[c]]],
                           NoRowIndex)

\* Table.update_row
update_row(T, row_index, updates) ==
    IF row_index < 0 \/ row_index >= Len(T.rows) THEN Returned(T, NoRowIndex)
    ELSE IF T.rows[row_index + 1] = None THEN Raised(T, "AttributeError")
    ELSE LET old_row == T.rows[row_index + 1][1]
             applied == apply_updates(T, old_row, updates)
             new_row == applied.row
             removed == [c \in DOMAIN T.indexes |->
                           IF Get(old_row, c) # Null /\ IndexHas(T.indexes[c], Get(old_row, c))
                           THEN IndexDel(T.indexes[c], Get(old_row, c))
                           ELSE T.indexes[c]]
         IN  IF applied.raised # "none" THEN Raised(T, applied.raised)
             ELSE IF validate_row(T, new_row, row_index) # "none"
                  THEN Raised(T, validate_row(T, new_row, row_index))
             ELSE Returned([T EXCEPT !.rows[row_index + 1] = Some(new_row),
                                     !.indexes = [c \in DOMAIN T.indexes |->
                                                    IF Get(new_row, c) # Null
                                                    THEN IndexPut(removed[c], Get(new_row, c), row_index)
                                                    ELSE removed[c]]],
                           NoRowIndex)

\* delete_row leaving the index entries of the deleted row in place.
delete_row_keeping_index(T, row_index) ==
    IF row_index < 0 \/ row_index >= Len(T.rows) THEN Returned(T, NoRowIndex)
    ELSE Returned([T EXCEPT !.rows[row_index + 1] = None], NoRowIndex)

\* Table.delete_row
delete_row(T, row_index) ==
    IF row_index < 0 \/ row_index >= Len(T.rows) THEN Returned(T, NoRowIndex)
    ELSE IF T.rows[row_index + 1] = None /\ DOMAIN T.indexes # {} THEN Raised(T, "AttributeError")
    ELSE IF T.rows[row_index + 1] = None THEN Returned(T, NoRowIndex)
    ELSE LET row == T.rows[row_index + 1][1]
         IN  Returned([T EXCEPT !.rows[row_index + 1] = None,
                                !.indexes = [c \in DOMAIN T.indexes |->
                                               IF Get(row, c) # Null /\ IndexHas(T.indexes[c], Get(row, c))
                                               THEN IndexDel(T.indexes[c], Get(row, c))
                                               ELSE T.indexes[c]]],
                      NoRowIndex)

(***************************************************************************)
(* Predicates: Table.find_rows and Table._evaluate_conditions.             *)
(***************************************************************************)
\* The characters of the model in code-point order.
CodePoints ==
    <<"+", "-", ".">> \o Digits \o UpperCase \o <<"_">> \o LowerCase

Ord(c) == CHOOSE i \in DOMAIN CodePoints : CodePoints[i] = c

\* Python's < on str: lexicographic by code point.
RECURSIVE TextLess(_, _)
TextLess(a, b) ==
    IF b = <<>> THEN FALSE
    ELSE IF a = <<>> THEN TRUE
    ELSE IF a[1] = b[1] THEN TextLess(Tail(a), Tail(b))
    ELSE Ord(a[1]) < Ord(b[1])

Numeric(v) == v.t \in {"int", "bool"}

\* < is defined between two numbers and between two texts; anything else
\* raises TypeError.
Comparable(a, b) == (Numeric(a) /\ Numeric(b)) \/ (a.t = "str" /\ b.t = "str")

PyLess(a, b) == IF Numeric(a) THEN a.n < b.n ELSE TextLess(a.s, b.s)

\* A column reference is the list of its dot-separated parts: RawName is the
\* identifier as written, LastPart is name.split('.')[-1].
RECURSIVE RawName(_)
RawName(ref) == IF Len(ref) = 1 THEN ref[1] ELSE ref[1] \o "." \o RawName(Tail(ref))

LastPart(ref) == ref[Len(ref)]

Atom(column, operator, value) == [column |-> column, operator |-> operator, value |-> value]

Logic(connector) == [logic |-> connector]

NoConditions == <<[logic |-> "none"]>>

\* One atom against one row: lines 221-240 of _evaluate_conditions.
evaluate_atom(row, cond) ==
    LET row_value == row[RawName(cond.column)]
        value == cond.value
        both == row_value # Null /\ value # Null
    IN  IF RawName(cond.column) \notin DOMAIN row THEN [raised |-> "ColumnNotFoundError", value |-> FALSE]
        ELSE IF cond.operator = "=" THEN [raised |-> "none", value |-> PyEq(row_value, value)]
        ELSE IF cond.operator = "!=" THEN [raised |-> "none", value |-> ~PyEq(row_value, value)]
        ELSE IF cond.operator \notin {"<", "<=", ">", ">="} THEN [raised |-> "DataTypeError", value |-> FALSE]
        ELSE IF ~both THEN [raised |-> "none", value |-> FALSE]
        ELSE IF ~Comparable(row_value, value) THEN [raised |-> "TypeError", value |-> FALSE]
        ELSE [raised |-> "none",
              value |-> CASE cond.operator = "<" -> PyLess(row_value, value)
                          [] cond.operator = "<=" -> ~PyLess(value, row_value)
                          [] cond.operator = ">" -> PyLess(value, row_value)
                          [] OTHER -> ~PyLess(row_value, value)]

\* The loop of _evaluate_conditions from the given running result and
\* pending connector.
RECURSIVE evaluate_from(_, _, _, _)
evaluate_from(row, conditions, running, current_logic) ==
    IF conditions = <<>> THEN [raised |-> "none", value |-> running]
    ELSE IF "logic" \in DOMAIN conditions[1]
         THEN evaluate_from(row, Tail(conditions), running, conditions[1].logic)
    ELSE LET a == evaluate_atom(row, conditions[1])
         IN  IF a.raised # "none" THEN a
             ELSE evaluate_from(row, Tail(conditions),
                                IF current_logic = "AND" THEN running /\ a.value ELSE running \/ a.value,
                                current_logic)

\* _evaluate_conditions giving AND precedence over OR: the clause is true
\* when every atom of one of its AND-groups is true.
evaluate_conditions_with_precedence(row, conditions) ==
    LET atoms == {i \in DOMAIN conditions : "logic" \notin DOMAIN conditions[i]}
        grouped(i, j) == \A k \in DOMAIN conditions :
                            ((i < k /\ k < j) \/ (j < k /\ k < i)) =>
                                ("logic" \notin DOMAIN conditions[k] \/ conditions[k].logic = "AND")
    IN  IF \E i \in atoms : evaluate_atom(row, conditions[i]).raised # "none"
        THEN evaluate_atom(row, conditions[CHOOSE i \in atoms :
                                   /\ evaluate_atom(row, conditions[i]).raised # "none"
                                   /\ \A j \in atoms : j < i =>
                                         evaluate_atom(row, conditions[j]).raised = "none"])
        ELSE [raised |-> "none",
              value |-> \E i \in atoms : \A j \in atoms :
                            grouped(i, j) => evaluate_atom(row, conditions[j]).value]

\* Table._evaluate_conditions
evaluate_conditions(row, conditions) == evaluate_from(row, conditions, TRUE, "AND")

\* The scan of find_rows from position i on.
RECURSIVE find_from(_, _, _, _)
find_from(T, conditions, i, matching_indexes) ==
    IF i >= Len(T.rows) THEN [raised |-> "none", indexes |-> matching_indexes]
    ELSE IF T.rows[i + 1] = None THEN find_from(T, conditions, i + 1, matching_indexes)
    ELSE LET e == evaluate_conditions(T.rows[i + 1][1], conditions)
         IN  IF e.raised # "none" THEN [raised |-> e.raised, indexes |-> <<>>]
             ELSE find_from(T, conditions, i + 1,
                            IF e.value THEN Append(matching_indexes, i) ELSE matching_indexes)

\* find_rows listing the matching positions from the last one down.
find_rows_from_last(T, conditions) ==
    LET found == find_from(T, IF conditions = NoConditions THEN <<>> ELSE conditions, 0, <<>>)
    IN  [found EXCEPT !.indexes = [i \in DOMAIN found.indexes |->
                                      found.indexes[Len(found.indexes) + 1 - i]]]

\* Table.find_rows
find_rows(T, conditions) ==
    IF conditions = NoConditions
    THEN find_from(T, <<>>, 0, <<>>)
    ELSE find_from(T, conditions, 0, <<>>)

(***************************************************************************)
(* Persistence: Table.to_dict / from_dict, Database.save / load.           *)
(***************************************************************************)
\* json.dump / json.load of one value: None <-> null, int <-> number,
\* bool <-> true/false, str <-> string.
JsonOf(v) ==
    CASE v.t = "null" -> [json |-> "null", n |-> 0, s |-> <<>>]
      [] v.t = "int" -> [json |-> "number", n |-> v.n, s |-> <<>>]
      [] v.t = "bool" -> [json |-> IF v.n = 1 THEN "true" ELSE "false", n |-> 0, s |-> <<>>]
      [] OTHER -> [json |-> "string", n |-> 0, s |-> v.s]

OfJson(j) ==
    CASE j.json = "null" -> Null
      [] j.json = "number" -> IntV(j.n)
      [] j.json = "true" -> BoolV(TRUE)
      [] j.json = "false" -> BoolV(FALSE)
      [] OTHER -> StrV(j.s)

IsLive(slot) == slot # None

\* to_dict writing a null for every tombstone.
to_dict_keeping_tombstones(T) ==
    [name |-> T.name,
     columns |-> T.columns,
     rows |-> [i \in DOMAIN T.rows |->
                 IF T.rows[i] = None
                 THEN [c \in ColumnNames(T.columns) |-> JsonOf(Null)]
                 ELSE [c \in DOMAIN T.rows[i][1] |-> JsonOf(T.rows[i][1][c])]]]

\* Table.to_dict, as json.dump writes it.
to_dict(T) ==
    LET live == SelectSeq(T.rows, IsLive)
    IN  [name |-> T.name,
         columns |-> T.columns,
         rows |-> [i \in DOMAIN live |-> [c \in DOMAIN live[i][1] |-> JsonOf(live[i][1][c])]]]

\* The loop of from_dict: insert_row for each row of the document in order.
RECURSIVE insert_all(_, _)
insert_all(T, rows) ==
    IF rows = <<>> THEN Returned(T, NoRowIndex)
    ELSE LET r == insert_row(T, [c \in DOMAIN rows[1] |-> OfJson(rows[1][c])])
         IN  IF r.raised # "none" THEN r ELSE insert_all(r.table, Tail(rows))

\* Table.from_dict
from_dict(data) == insert_all(Table(data.name, data.columns), data.rows)

\* Database.save: the file after the call.
save(db_tables, file_backed, file) ==
    IF ~file_backed THEN file
    ELSE [exists |-> TRUE, tables |-> [n \in DOMAIN db_tables |-> to_dict(db_tables[n])]]

\* Database.load, called by Database.__init__ on a fresh object whose tables
\* are db_tables: self.tables is emptied and refilled table by table.  When a
\* from_dict raises, the exception leaves __init__ and the half-filled object
\* is never bound, so its tables are reported as emptied.
load(db_tables, file_backed, file) ==
    IF ~file_backed \/ ~file.exists THEN [raised |-> "none", tables |-> db_tables]
    ELSE LET built == [n \in DOMAIN file.tables |-> from_dict(file.tables[n])]
         IN  IF \E n \in DOMAIN built : built[n].raised # "none"
             THEN [raised |-> (CHOOSE k \in {built[n].raised : n \in DOMAIN built} : k # "none"),
                   tables |-> <<>>]
             ELSE [raised |-> "none", tables |-> [n \in DOMAIN built |-> built[n].table]]

(***************************************************************************)
(* The executor.  An optional clause of a command is a sequence of length  *)
(* 0 (absent) or 1.  Every _execute_* returns what it raised, the tables   *)
(* and the file as it left them, and the Result it returned.               *)
(***************************************************************************)
SimpleDBErrors ==
    {"ParseError", "TableNotFoundError", "PrimaryKeyViolation", "UniqueConstraintViolation",
     "NotNullViolation", "DataTypeError", "ColumnNotFoundError"}

Failure(unexpected, kind) ==
    [success |-> FALSE, error |-> [unexpected |-> unexpected, kind |-> kind]]

Message(text, n) == [success |-> TRUE, message |-> [text |-> text, n |-> n]]

RowsResult(columns, rows) ==
    [success |-> TRUE, columns |-> columns, rows |-> rows, count |-> Len(rows)]

Done(db_tables, file, res) ==
    [raised |-> "none", tables |-> db_tables, file |-> file, result |-> res]

Throw(db_tables, file, kind) ==
    [raised |-> kind, tables |-> db_tables, file |-> file, result |-> Failure(TRUE, kind)]

\* _execute_create building the table anew when IF NOT EXISTS finds it.
execute_create_replacing(db_tables, file_backed, file, command) ==
    IF command.table \in DOMAIN db_tables /\ ~command.if_not_exists
    THEN Throw(db_tables, file, "ValueError")
    ELSE LET created == [n \in DOMAIN db_tables \cup {command.table} |->
                           IF n = command.table THEN Table(n, command.columns) ELSE db_tables[n]]
         IN  Done(created, save(created, file_backed, file),
                  Message(IF command.table \in DOMAIN db_tables THEN "skipped" ELSE "created", 0))

\* _execute_create putting the new table in the place of an existing one.
execute_create_overwriting(db_tables, file_backed, file, command) ==
    IF command.if_not_exists /\ command.table \in DOMAIN db_tables
    THEN Done(db_tables, file, Message("skipped", 0))
    ELSE LET created == [n \in DOMAIN db_tables \cup {command.table} |->
                           IF n = command.table THEN Table(n, command.columns) ELSE db_tables[n]]
         IN  Done(created, save(created, file_backed, file), Message("created", 0))

\* QueryExecutor._execute_create
execute_create(db_tables, file_backed, file, command) ==
    IF command.if_not_exists /\ command.table \in DOMAIN db_tables
    THEN Done(db_tables, file, Message("skipped", 0))
    ELSE IF command.table \in DOMAIN db_tables THEN Throw(db_tables, file, "ValueError")
    ELSE LET created == [n \in DOMAIN db_tables \cup {command.table} |->
                           IF n = command.table THEN Table(n, command.columns) ELSE db_tables[n]]
         IN  Done(created, save(created, file_backed, file), Message("created", 0))

\* _execute_drop succeeding on a table that is not there.
execute_drop_if_exists(db_tables, file_backed, file, command) ==
    LET dropped == [n \in DOMAIN db_tables \ {command.table} |-> db_tables[n]]
    IN  Done(dropped, save(dropped, file_backed, file), Message("dropped", 0))

\* QueryExecutor._execute_drop
execute_drop(db_tables, file_backed, file, command) ==
    IF command.table \notin DOMAIN db_tables THEN Throw(db_tables, file, "TableNotFoundError")
    ELSE LET dropped == [n \in DOMAIN db_tables \ {command.table} |-> db_tables[n]]
         IN  Done(dropped, save(dropped, file_backed, file), Message("dropped", 0))

\* {col: val for col, val in zip(names, values)}: a later pair of the same
\* name replaces an earlier one.
ZipDict(names, values) ==
    [c \in Range(names) |->
        values[CHOOSE i \in DOMAIN names : names[i] = c /\ \A j \in DOMAIN names : names[j] = c => j <= i]]

\* _execute_insert after the row dict is built: insert_row, then save.
insert_built(db_tables, file_backed, file, command, r) ==
    IF r.raised # "none" THEN Throw([db_tables EXCEPT ![command.table] = r.table], file, r.raised)
    ELSE Done([db_tables EXCEPT ![command.table] = r.table],
              save([db_tables EXCEPT ![command.table] = r.table], file_backed, file),
              Message("inserted", 1))

\* _execute_insert without the two length tests: zip pairs what it can.
execute_insert_zipping(db_tables, file_backed, file, command) ==
    IF command.table \notin DOMAIN db_tables THEN Throw(db_tables, file, "TableNotFoundError")
    ELSE LET table == db_tables[command.table]
             names == IF command.columns # <<>> THEN command.columns
                      ELSE [i \in DOMAIN table.columns |-> table.columns[i].name]
             paired == IF Len(names) < Len(command.values) THEN Len(names) ELSE Len(command.values)
         IN  insert_built(db_tables, file_backed, file, command,
                          insert_row(table, ZipDict(SubSeq(names, 1, paired), command.values)))

\* QueryExecutor._execute_insert
execute_insert(db_tables, file_backed, file, command) ==
    IF command.table \notin DOMAIN db_tables THEN Throw(db_tables, file, "TableNotFoundError")
    ELSE LET table == db_tables[command.table]
             names == IF command.columns # <<>> THEN command.columns
                      ELSE [i \in DOMAIN table.columns |-> table.columns[i].name]
         IN  IF Len(names) # Len(command.values)
             THEN Done(db_tables, file, Failure(FALSE, "CountMismatch"))
             ELSE insert_built(db_tables, file_backed, file, command,
                               insert_row(table, ZipDict(names, command.values)))

\* The loop of _execute_update over the matched positions.
RECURSIVE update_each(_, _, _)
update_each(T, row_indexes, updates) ==
    IF row_indexes = <<>> THEN Returned(T, NoRowIndex)
    ELSE LET r == update_row(T, row_indexes[1], updates)
         IN  IF r.raised # "none" THEN r ELSE update_each(r.table, Tail(row_indexes), updates)

\* _execute_update restoring the table when its loop raised.
update_looped_rolling_back(db_tables, file_backed, file, command, n, r) ==
    IF r.raised # "none" THEN Throw(db_tables, file, r.raised)
    ELSE Done([db_tables EXCEPT ![command.table] = r.table],
              save([db_tables EXCEPT ![command.table] = r.table], file_backed, file),
              Message("updated", n))

\* _execute_update after its loop: r is the table as the loop left it and
\* what the loop raised; save runs only when it raised nothing.
update_looped(db_tables, file_backed, file, command, n, r) ==
    IF r.raised # "none" THEN Throw([db_tables EXCEPT ![command.table] = r.table], file, r.raised)
    ELSE Done([db_tables EXCEPT ![command.table] = r.table],
              save([db_tables EXCEPT ![command.table] = r.table], file_backed, file),
              Message("updated", n))

\* _execute_update after find_rows.
update_found(db_tables, file_backed, file, command, found) ==
    IF found.raised # "none" THEN Throw(db_tables, file, found.raised)
    ELSE update_looped(db_tables, file_backed, file, command, Len(found.indexes),
                       update_each(db_tables[command.table], found.indexes, command.updates))

\* QueryExecutor._execute_update
execute_update(db_tables, file_backed, file, command) ==
    IF command.table \notin DOMAIN db_tables THEN Throw(db_tables, file, "TableNotFoundError")
    ELSE update_found(db_tables, file_backed, file, command,
                      find_rows(db_tables[command.table], command.where))

\* The loop of _execute_delete: sorted(row_indexes, reverse=True).
RECURSIVE delete_each(_, _)
delete_each(T, row_indexes) ==
    IF row_indexes = <<>> THEN Returned(T, NoRowIndex)
    ELSE LET r == delete_row(T, row_indexes[Len(row_indexes)])
         IN  IF r.raised # "none" THEN r ELSE delete_each(r.table, Front(row_indexes))

\* _execute_delete returning without the save.
delete_looped_without_save(db_tables, file_backed, file, command, n, r) ==
    IF r.raised # "none" THEN Throw([db_tables EXCEPT ![command.table] = r.table], file, r.raised)
    ELSE Done([db_tables EXCEPT ![command.table] = r.table], file, Message("deleted", n))

\* _execute_delete after its loop.
delete_looped(db_tables, file_backed, file, command, n, r) ==
    IF r.raised # "none" THEN Throw([db_tables EXCEPT ![command.table] = r.table], file, r.raised)
    ELSE Done([db_tables EXCEPT ![command.table] = r.table],
              save([db_tables EXCEPT ![command.table] = r.table], file_backed, file),
              Message("deleted", n))

\* _execute_delete after find_rows.
delete_found(db_tables, file_backed, file, command, found) ==
    IF found.raised # "none" THEN Throw(db_tables, file, found.raised)
    ELSE delete_looped(db_tables, file_backed, file, command, Len(found.indexes),
                       delete_each(db_tables[command.table], found.indexes))

\* QueryExecutor._execute_delete
execute_delete(db_tables, file_backed, file, command) ==
    IF command.table \notin DOMAIN db_tables THEN Throw(db_tables, file, "TableNotFoundError")
    ELSE delete_found(db_tables, file_backed, file, command,
                      find_rows(db_tables[command.table], command.where))


(***************************************************************************)
(* SELECT.  A projection item is one of the four texts parse_select        *)
(* builds: the star, the aliased row count, 'col' and 'col AS alias'.      *)
(***************************************************************************)
Star == [item |-> "*", column |-> <<"*">>, alias |-> "*"]

CountAs(alias) == [item |-> "COUNT AS", column |-> <<"COUNT">>, alias |-> alias]

Col(ref) == [item |-> "col", column |-> ref, alias |-> LastPart(ref)]

ColAs(ref, alias) == [item |-> "col AS", column |-> ref, alias |-> alias]

\* The sort key of ORDER BY: r.get(col) if it is not None, else ''.
sort_key(row, col_name) == IF Get(row, col_name) # Null THEN Get(row, col_name) ELSE StrV(<<>>)

\* list.sort compares keys with <; a list of two or more keys that are not
\* all numbers or all texts raises TypeError.
sort_raises(rows, col_name) ==
    \E i \in DOMAIN rows, j \in DOMAIN rows :
        ~Comparable(sort_key(rows[i], col_name), sort_key(rows[j], col_name))

\* Stable insertion of row into a list sorted by the key: after every row it
\* does not precede.
RECURSIVE insert_sorted(_, _, _, _)
insert_sorted(sorted, row, col_name, reverse) ==
    IF sorted = <<>> THEN <<row>>
    ELSE LET precedes == IF reverse
                         THEN PyLess(sort_key(sorted[1], col_name), sort_key(row, col_name))
                         ELSE PyLess(sort_key(row, col_name), sort_key(sorted[1], col_name))
         IN  IF precedes THEN <<row>> \o sorted
             ELSE <<sorted[1]>> \o insert_sorted(Tail(sorted), row, col_name, reverse)

\* rows.sort taking DESC as the mirror image of the ascending order.
RECURSIVE sort_rows_mirroring_desc(_, _, _)
sort_rows_mirroring_desc(rows, col_name, reverse) ==
    IF rows = <<>> THEN <<>>
    ELSE IF reverse
         THEN LET ascending == sort_rows_mirroring_desc(rows, col_name, FALSE)
              IN  [i \in DOMAIN ascending |-> ascending[Len(ascending) + 1 - i]]
    ELSE insert_sorted(sort_rows_mirroring_desc(Front(rows), col_name, FALSE),
                       rows[Len(rows)], col_name, FALSE)

\* rows.sort(key=..., reverse=reverse): stable in both directions.
RECURSIVE sort_rows(_, _, _)
sort_rows(rows, col_name, reverse) ==
    IF rows = <<>> THEN <<>>
    ELSE insert_sorted(sort_rows(Front(rows), col_name, reverse), rows[Len(rows)], col_name, reverse)

\* rows[:limit]
slice_to(rows, limit) ==
    IF limit >= 0 THEN SubSeq(rows, 1, IF limit < Len(rows) THEN limit ELSE Len(rows))
    ELSE SubSeq(rows, 1, Len(rows) + limit)

\* The merged row of the JOIN: the left row, then every key of the join row
\* under its own name if the merged row lacks it, else under 'table.key'.
merge_rows(row, j_row, join_table_name) ==
    LET renamed(k) == IF k \in DOMAIN row THEN join_table_name \o "." \o k ELSE k
    IN  [key \in DOMAIN row \cup {renamed(k) : k \in DOMAIN j_row} |->
            IF \E k \in DOMAIN j_row : renamed(k) = key
            THEN j_row[CHOOSE k \in DOMAIN j_row : renamed(k) = key]
            ELSE row[key]]

\* The inner loop of the JOIN over the rows of the join table from slot i on.
RECURSIVE join_one(_, _, _, _, _)
join_one(row, join_table, right_col, match_val, i) ==
    IF i > Len(join_table.rows) THEN <<>>
    ELSE LET j_row == join_table.rows[i][1]
             rest == join_one(row, join_table, right_col, match_val, i + 1)
         IN  IF PyEq(Get(j_row, right_col), match_val)
             THEN <<merge_rows(row, j_row, join_table.name)>> \o rest
             ELSE rest

RECURSIVE join_rows(_, _, _, _)
join_rows(rows, join_table, left_col, right_col) ==
    IF rows = <<>> THEN <<>>
    ELSE (IF Get(rows[1], left_col) # Null
          THEN join_one(rows[1], join_table, right_col, Get(rows[1], left_col), 1)
          ELSE <<>>)
         \o join_rows(Tail(rows), join_table, left_col, right_col)

\* j_row.get on a tombstone of the join table raises AttributeError; the
\* inner loop runs when some left row has a non-Null join value.
join_raises(rows, join_table, left_col) ==
    /\ \E i \in DOMAIN rows : Get(rows[i], left_col) # Null
    /\ \E i \in DOMAIN join_table.rows : join_table.rows[i] = None

\* The projection of one row onto the (source, alias) mappings in order: a
\* later item of the same alias replaces an earlier one.
project_row(row, columns) ==
    [a \in {columns[i].alias : i \in DOMAIN columns} |->
        LET last == CHOOSE i \in DOMAIN columns :
                      columns[i].alias = a /\ \A j \in DOMAIN columns : columns[j].alias = a => j <= i
        IN  Get(row, LastPart(columns[last].column))]

\* The columns of SELECT *: the table's, then the join table's not among them.
RECURSIVE star_columns(_, _)
star_columns(result_columns, join_columns) ==
    IF join_columns = <<>> THEN result_columns
    ELSE star_columns(IF join_columns[1].name \in Range(result_columns)
                      THEN result_columns
                      ELSE Append(result_columns, join_columns[1].name),
                      Tail(join_columns))

\* _execute_select, the column selection over the final rows.
select_columns(db_tables, file, command, rows) ==
    LET table == db_tables[command.table]
        columns == command.columns
        is_count_query == \E i \in DOMAIN columns : columns[i].item = "COUNT AS"
        count_alias == IF columns[1].item \in {"COUNT AS", "col AS"} THEN columns[1].alias ELSE "count"
        table_columns == [i \in DOMAIN table.columns |-> table.columns[i].name]
    IN  IF is_count_query
        THEN Done(db_tables, file,
                  RowsResult(<<count_alias>>, <<[a \in {count_alias} |-> IntV(Len(rows))]>>))
        ELSE IF columns = <<Star>>
             THEN Done(db_tables, file,
                       RowsResult(IF command.join = <<>> THEN table_columns
                                  ELSE star_columns(table_columns, db_tables[command.join[1].table].columns),
                                  rows))
        ELSE Done(db_tables, file,
                  RowsResult([i \in DOMAIN columns |-> columns[i].alias],
                             [i \in DOMAIN rows |-> project_row(rows[i], columns)]))

\* _execute_select, the JOIN over the sorted and limited rows.
select_join(db_tables, file, command, limited) ==
    IF command.join = <<>> THEN select_columns(db_tables, file, command, limited)
    ELSE IF command.join[1].table \notin DOMAIN db_tables
         THEN Throw(db_tables, file, "TableNotFoundError")
    ELSE IF join_raises(limited, db_tables[command.join[1].table], LastPart(command.join[1].left))
         THEN Throw(db_tables, file, "AttributeError")
    ELSE select_columns(db_tables, file, command,
                        join_rows(limited, db_tables[command.join[1].table],
                                  LastPart(command.join[1].left), LastPart(command.join[1].right)))

\* _execute_select, LIMIT over the sorted rows: 'if limit' skips 0.
select_limit(db_tables, file, command, ordered) ==
    select_join(db_tables, file, command,
                IF command.limit = <<>> \/ command.limit = <<0>> THEN ordered
                ELSE slice_to(ordered, command.limit[1]))

\* _execute_select, ORDER BY over the fetched rows.
select_order(db_tables, file, command, fetched) ==
    IF command.order_by = <<>> THEN select_limit(db_tables, file, command, fetched)
    ELSE IF sort_raises(fetched, RawName(command.order_by[1].column))
         THEN Throw(db_tables, file, "TypeError")
    ELSE select_limit(db_tables, file, command,
                      sort_rows(fetched, RawName(command.order_by[1].column),
                                command.order_by[1].direction = "DESC"))

\* _execute_select after find_rows: the rows at the matched positions.
select_found(db_tables, file, command, found) ==
    IF found.raised # "none" THEN Throw(db_tables, file, found.raised)
    ELSE select_order(db_tables, file, command,
                      [i \in DOMAIN found.indexes |->
                          db_tables[command.table].rows[found.indexes[i] + 1][1]])

\* QueryExecutor._execute_select
execute_select(db_tables, file_backed, file, command) ==
    IF command.table \notin DOMAIN db_tables THEN Throw(db_tables, file, "TableNotFoundError")
    ELSE select_found(db_tables, file, command, find_rows(db_tables[command.table], command.where))

\* The outcome of Parser.parse on a text that is no statement: ParseError,
\* or the AttributeError of token.type on a statement that ends early.
ParseFailures == {"ParseError", "AttributeError"}

ParseFailed(kind) == [command |-> "none", raised |-> kind]

\* QueryExecutor.execute: the dispatch inside the try block.
dispatch(db_tables, file_backed, file, command) ==
    CASE command.command = "none" -> Throw(db_tables, file, command.raised)
      [] command.command = "CREATE" -> execute_create(db_tables, file_backed, file, command)
      [] command.command = "DROP" -> execute_drop(db_tables, file_backed, file, command)
      [] command.command = "INSERT" -> execute_insert(db_tables, file_backed, file, command)
      [] command.command = "SELECT" -> execute_select(db_tables, file_backed, file, command)
      [] command.command = "UPDATE" -> execute_update(db_tables, file_backed, file, command)
      [] command.command = "DELETE" -> execute_delete(db_tables, file_backed, file, command)
      [] OTHER -> Done(db_tables, file, Failure(FALSE, "UnknownCommand"))

\* execute with only 'except SimpleDBException': any other exception
\* propagates.
caught_simpledb_only(r) ==
    IF r.raised \in SimpleDBErrors
    THEN [r EXCEPT !.raised = "none", !.result = Failure(FALSE, r.raised)]
    ELSE r

\* QueryExecutor.execute: the two except clauses turn what was raised into a
\* failure Result; nothing propagates to the caller.
caught(r) ==
    IF r.raised = "none" THEN r
    ELSE IF r.raised \in SimpleDBErrors
         THEN [r EXCEPT !.raised = "none", !.result = Failure(FALSE, r.raised)]
    ELSE [r EXCEPT !.raised = "none", !.result = Failure(TRUE, r.raised)]

\* QueryExecutor.execute
execute(db_tables, file_backed, file, command) ==
    caught(dispatch(db_tables, file_backed, file, command))

(***************************************************************************)
(* Inputs: the schemas, values and arguments the operations are called     *)
(* with.                                                                   *)
(***************************************************************************)
Schemas ==
    { <<Column("id", "INT", NoLength, {"PRIMARY KEY"}),
        Column("email", "VARCHAR", 2, {"UNIQUE"})>>,
      <<Column("id", "INT", NoLength, {"PRIMARY KEY"}),
        Column("name", "VARCHAR", 2, {"NOT NULL"})>>,
      <<Column("a", "INT", NoLength, {"PRIMARY KEY"}),
        Column("b", "INT", NoLength, {"PRIMARY KEY"})>>,
      <<Column("flag", "BOOLEAN", NoLength, {}),
        Column("name", "VARCHAR", NoLength, {})>> }

Values ==
    { Null, IntV(2), StrV(<<"1">>), StrV(<<"a", "b", "c">>) }

UnknownColumn == "zz"

\* The dicts insert_row is called with: a value for any subset of the
\* schema's columns, and some with a key that is not a column.
ValueDicts(T) ==
    LET names == ColumnNames(T.columns)
        known == UNION {[S -> Values] : S \in SUBSET names}
    IN  known \cup {[c \in DOMAIN d \cup {UnknownColumn} |-> IF c \in DOMAIN d THEN d[c] ELSE IntV(2)] :
                      d \in {k \in known : DOMAIN k = {} \/ (DOMAIN k = names /\ \A c \in names : k[c] = StrV(<<"1">>))}}

\* The assignments update_row is called with (the dict's items in order):
\* one assignment to any column or to an unknown one, and two assignments.
UpdateLists(T) ==
    LET names == ColumnNames(T.columns) \cup {UnknownColumn}
        one == {<<<<c, v>>>> : c \in names, v \in Values}
        two == {<<<<c, StrV(<<"a", "b", "c">>)>>, <<d, IntV(2)>>>> : c \in names, d \in names}
    IN  one \cup {u \in two : u[1][1] # u[2][1]}

RowIndexes(T) == -1 .. Len(T.rows)

\* update_row returns at once on a position out of range, whatever the
\* assignments: one assignment list is enough there.
UpdateCalls(T) ==
    {<<i, u>> \in RowIndexes(T) \X UpdateLists(T) :
        i \in 0 .. Len(T.rows) - 1 \/ u = <<<<UnknownColumn, Null>>>>}

(***************************************************************************)
(* The Table API called directly on table "t".                             *)
(***************************************************************************)
InsertRow ==
    /\ "t" \in DOMAIN tables
    /\ \E values \in ValueDicts(tables["t"]) :
         LET r == insert_row(tables["t"], values)
         IN  /\ Len(tables["t"].rows) < MaxRows \/ r.raised # "none"
             /\ tables' = [tables EXCEPT !["t"] = r.table]
             /\ call' = [op |-> "insert_row", columns |-> DOMAIN values, row_index |-> NoRowIndex]
             /\ result' = [raised |-> r.raised, ret |-> r.ret]
    /\ UNCHANGED <<db_file, snapshot>>

UpdateRow ==
    /\ "t" \in DOMAIN tables
    /\ \E c \in UpdateCalls(tables["t"]) :
         LET row_index == c[1]
             updates == c[2]
             r == update_row(tables["t"], row_index, updates)
         IN  /\ tables' = [tables EXCEPT !["t"] = r.table]
             /\ call' = [op |-> "update_row", columns |-> {updates[i][1] : i \in DOMAIN updates}, row_index |-> row_index]
             /\ result' = [raised |-> r.raised, ret |-> r.ret]
    /\ UNCHANGED <<db_file, snapshot>>

DeleteRow ==
    /\ "t" \in DOMAIN tables
    /\ \E row_index \in RowIndexes(tables["t"]) :
         LET r == delete_row(tables["t"], row_index)
         IN  /\ tables' = [tables EXCEPT !["t"] = r.table]
             /\ call' = [op |-> "delete_row", columns |-> {}, row_index |-> row_index]
             /\ result' = [raised |-> r.raised, ret |-> r.ret]
    /\ UNCHANGED <<db_file, snapshot>>

NoCall == [op |-> "none", columns |-> {}, row_index |-> NoRowIndex]

NoResult == [raised |-> "none", ret |-> NoRowIndex]

NoFile == [exists |-> FALSE, tables |-> <<>>]

\* A Table constructed over one of the schemas, not attached to a file.
InitTable ==
    /\ \E columns \in Schemas : tables = [n \in {"t"} |-> Table(n, columns)]
    /\ db_file = FALSE
    /\ snapshot = NoFile
    /\ call = NoCall
    /\ result = NoResult

NextTable == InsertRow \/ UpdateRow \/ DeleteRow

SpecTable == InitTable /\ [][NextTable]_vars

(***************************************************************************)
(* The statements execute() is called with, as parse returns them.         *)
(***************************************************************************)
TableNames == {"t", "u"}

Create(table, columns, if_not_exists) ==
    [command |-> "CREATE", table |-> table, columns |-> columns, if_not_exists |-> if_not_exists]

Drop(table) == [command |-> "DROP", table |-> table]

Insert(table, columns, values) ==
    [command |-> "INSERT", table |-> table, columns |-> columns, values |-> values]

Select(table, columns, join, where, order_by, limit) ==
    [command |-> "SELECT", table |-> table, columns |-> columns, join |-> join,
     where |-> where, order_by |-> order_by, limit |-> limit]

Update(table, updates, where) ==
    [command |-> "UPDATE", table |-> table, updates |-> updates, where |-> where]

Delete(table, where) == [command |-> "DELETE", table |-> table, where |-> where]

\* Table u is created with one schema and stays empty; table t takes every
\* schema and the rows.
JoinSchema ==
    <<Column("id", "INT", NoLength, {"PRIMARY KEY"}), Column("email", "VARCHAR", 2, {"UNIQUE"})>>

CreateCommands ==
    {Create("t", columns, flag) : columns \in Schemas, flag \in BOOLEAN}
    \cup {Create("u", JoinSchema, flag) : flag \in BOOLEAN}

DropCommands == {Drop(n) : n \in TableNames}

\* INSERT with a value for each of two columns, with one value too few, and
\* with a column list: of a known column, of an unknown one, and one that
\* does not match the value count.
InsertCommands ==
    {Insert("t", <<>>, <<v, w>>) : v \in Values, w \in Values}
    \cup {Insert("t", <<>>, <<IntV(2)>>)}
    \cup {Insert("t", <<c>>, <<StrV(<<"1">>)>>) : c \in {"id", UnknownColumn}}
    \cup {Insert("t", <<"id">>, <<Null, Null>>)}
    \cup {Insert("u", <<>>, <<Null, Null>>)}

AllRows == NoConditions

WhereClauses ==
    { AllRows,
      <<Atom(<<"id">>, "=", IntV(2))>>,
      <<Atom(<<"id">>, "<", StrV(<<"1">>))>>,
      <<Atom(<<"id">>, ">=", IntV(2)), Logic("OR"), Atom(<<"a">>, "!=", Null)>> }

Set(column, value) == <<<<column, value>>>>

\* UPDATE: assignments that collide on a key, fail coercion, break NOT NULL
\* or name an unknown column, over all rows or some.
UpdateCommands ==
    {Update("t", u, AllRows) :
        u \in {Set("id", IntV(2)), Set("id", StrV(<<"a", "b", "c">>)), Set("email", StrV(<<"1">>)),
               Set("name", Null), Set("b", StrV(<<"1">>)), Set("a", IntV(2)),
               Set("name", IntV(2)) \o Set(UnknownColumn, Null)}}
    \cup {Update("t", Set("id", StrV(<<"1">>)), w) : w \in WhereClauses}
    \cup {Update("u", Set("id", IntV(2)), AllRows)}

DeleteCommands == {Delete("t", w) : w \in WhereClauses} \cup {Delete("u", AllRows)}

Asc(ref) == <<[column |-> ref, direction |-> "ASC"]>>

Desc(ref) == <<[column |-> ref, direction |-> "DESC"]>>

JoinOn(table, left, right) == <<[table |-> table, left |-> left, right |-> right]>>

SelectCommands ==
    {Select("t", <<Star>>, <<>>, w, <<>>, <<>>) : w \in WhereClauses}
    \cup {Select("t", <<Star>>, <<>>, AllRows, Desc(<<"id">>), <<1>>),
          Select("t", <<Col(<<"id">>), CountAs("n")>>, <<>>, AllRows, <<>>, <<>>),
          Select("t", <<ColAs(<<"t", "id">>, "k"), Col(<<UnknownColumn>>)>>, <<>>, AllRows, Asc(<<"name">>), <<>>),
          Select("t", <<Star>>, JoinOn("u", <<"t", "id">>, <<"id">>), AllRows, <<>>, <<>>),
          Select("u", <<Star>>, <<>>, AllRows, <<>>, <<>>)}

(***************************************************************************)
(* The database behind an executor: one action per statement kind.         *)
(***************************************************************************)
\* What the properties need of a call: the statement kind and its table, the
\* assignments of an UPDATE and the WHERE clause of an UPDATE or DELETE.
Called(command) ==
    [op |-> "execute",
     command |-> command.command,
     table |-> IF command.command = "none" THEN "" ELSE command.table,
     updates |-> IF command.command = "UPDATE" THEN command.updates ELSE <<>>,
     where |-> IF command.command \in {"UPDATE", "DELETE"} THEN command.where ELSE <<>>]

NotCalled(op) == [op |-> op, command |-> "none", table |-> "", updates |-> <<>>, where |-> <<>>]

Returns(command, r) ==
    /\ tables' = r.tables
    /\ snapshot' = r.file
    /\ call' = Called(command)
    /\ result' = r.result
    /\ UNCHANGED db_file

Execute(command) == Returns(command, execute(tables, db_file, snapshot, command))

ExecCreate ==
    \E command \in CreateCommands :
        /\ command.command = "CREATE"
        /\ Execute(command)

ExecDrop ==
    \E command \in DropCommands :
        /\ command.command = "DROP"
        /\ Execute(command)

ExecInsert ==
    \E command \in InsertCommands :
        /\ command.table \in DOMAIN tables =>
              \/ Len(tables[command.table].rows) < MaxRows
              \/ ~execute(tables, db_file, snapshot, command).result.success
        /\ Execute(command)

ExecSelect ==
    \E command \in SelectCommands :
        /\ command.command = "SELECT"
        /\ Execute(command)

ExecUpdate ==
    \E command \in UpdateCommands :
        /\ command.command = "UPDATE"
        /\ Execute(command)

ExecDelete ==
    \E command \in DeleteCommands :
        /\ command.command = "DELETE"
        /\ Execute(command)

ExecUnparsed ==
    \E kind \in ParseFailures :
        /\ ParseFailed(kind).command = "none"
        /\ Execute(ParseFailed(kind))

\* A new Database over the same file: Database.__init__ loads it.
Reopen ==
    /\ db_file
    /\ LET r == load(<<>>, db_file, snapshot)
       IN  /\ tables' = IF r.raised = "none" THEN r.tables ELSE tables
           /\ call' = NotCalled("load")
           /\ result' = [raised |-> r.raised, ret |-> NoRowIndex]
    /\ UNCHANGED <<db_file, snapshot>>

Init ==
    /\ tables = <<>>
    /\ db_file = TRUE
    /\ snapshot = NoFile
    /\ call = NotCalled("none")
    /\ result = NoResult

Next ==
    \/ ExecCreate
    \/ ExecDrop
    \/ ExecInsert
    \/ ExecSelect
    \/ ExecUpdate
    \/ ExecDelete
    \/ ExecUnparsed
    \/ Reopen

Spec == Init /\ [][Next]_vars

(***************************************************************************)
(* WHERE evaluation on its own: _evaluate_conditions applied to one row    *)
(* of a table and one clause.                                              *)
(***************************************************************************)
WhereSchema ==
    <<Column("id", "INT", NoLength, {"PRIMARY KEY"}),
      Column("name", "VARCHAR", NoLength, {}),
      Column("flag", "BOOLEAN", NoLength, {})>>

WhereRows ==
    {[id |-> i, name |-> n, flag |-> f] :
        i \in {StrV(<<"1">>), IntV(2)}, n \in {Null, StrV(<<"a">>)}, f \in {Null, StrV(<<"1">>)}}

\* Atoms of every operator, against numbers, texts, a Boolean and Null.
WhereAtoms ==
    {Atom(<<"id">>, op, IntV(2)) : op \in {"=", "!=", "<", "<=", ">", ">="}}
    \cup {Atom(<<"name">>, op, StrV(<<"a">>)) : op \in {"=", "!=", "<", "<=", ">", ">="}}
    \cup {Atom(<<"name">>, op, Null) : op \in {"=", "!=", "<", "<=", ">", ">="}}
    \cup {Atom(<<"id">>, op, Null) : op \in {"=", "!=", "<", ">="}}
    \cup {Atom(<<"flag">>, op, IntV(1)) : op \in {"=", "!="}}
    \cup {Atom(<<"id">>, "<", StrV(<<"a">>))}

FoldAtoms ==
    {Atom(<<"id">>, "=", IntV(2)), Atom(<<"name">>, "=", Null),
     Atom(<<"flag">>, "!=", Null), Atom(<<"id">>, "<", StrV(<<"a">>))}

Connectors == {"AND", "OR"}

\* The clauses parse_where builds: atoms separated by connectors.
WhereInputs ==
    {<<a>> : a \in WhereAtoms}
    \cup {<<a, Logic(c), b>> : a \in FoldAtoms, c \in Connectors, b \in FoldAtoms}
    \cup {<<a, Logic(c), b, Logic(d), e>> :
            a \in FoldAtoms, c \in Connectors, b \in FoldAtoms, d \in Connectors, e \in FoldAtoms}

InitWhere ==
    /\ \E values \in WhereRows :
          tables = [n \in {"t"} |-> insert_row(Table("t", WhereSchema), values).table]
    /\ db_file = FALSE
    /\ snapshot = NoFile
    /\ call = [op |-> "none", conditions |-> <<>>]
    /\ result = [raised |-> "none", value |-> TRUE]

EvaluateConditions ==
    \E conditions \in WhereInputs :
        /\ call' = [op |-> "evaluate_conditions", conditions |-> conditions]
        /\ result' = evaluate_conditions(tables["t"].rows[1][1], conditions)
        /\ UNCHANGED <<tables, db_file, snapshot>>

NextWhere == EvaluateConditions

SpecWhere == InitWhere /\ [][NextWhere]_vars

(***************************************************************************)
(* SELECT over two tables: an in-memory Database in which t and u are      *)
(* created and filled, rows of u are deleted, and t is queried.            *)
(***************************************************************************)
MaxLeftRows == 3

MaxRightRows == 2

LeftSchema ==
    <<Column("id", "INT", NoLength, {"PRIMARY KEY"}), Column("name", "VARCHAR", 2, {}),
      Column("age", "INT", NoLength, {})>>

RightSchema ==
    <<Column("id", "INT", NoLength, {"PRIMARY KEY"}), Column("ref", "VARCHAR", 2, {})>>

QueryCreates == {Create("t", LeftSchema, FALSE), Create("u", RightSchema, FALSE)}

\* Rows of t: two that tie on name, one that differs, one without a name;
\* two with an age and two without.
QueryInserts ==
    {Insert("t", <<>>, <<IntV(1), StrV(<<"b">>), Null>>),
     Insert("t", <<>>, <<IntV(2), StrV(<<"a">>), IntV(7)>>),
     Insert("t", <<>>, <<IntV(3), StrV(<<"a">>), IntV(5)>>),
     Insert("t", <<>>, <<IntV(4), Null, Null>>),
     Insert("u", <<>>, <<IntV(1), StrV(<<"a">>)>>), Insert("u", <<>>, <<IntV(2), StrV(<<"a">>)>>),
     Insert("u", <<>>, <<IntV(3), Null>>)}

QueryDeletes == {Delete("u", <<Atom(<<"id">>, "=", IntV(k))>>) : k \in 1 .. 3}

Limits == {0, 1, 2, 4}

\* Projection lists that hold COUNT(*): alone or beside a column, first or
\* last, with an alias or without.
CountLists ==
    {<<CountAs("count")>>, <<CountAs("n")>>, <<CountAs("n"), Col(<<"id">>)>>,
     <<Col(<<"id">>), CountAs("n")>>, <<ColAs(<<"id">>, "k"), CountAs("count")>>}

Queries ==
    {Select("t", <<Star>>, <<>>, AllRows, <<>>, <<n>>) : n \in Limits}
    \cup {Select("t", <<Star>>, <<>>, AllRows, o, <<>>) :
            o \in {Asc(<<"name">>), Desc(<<"name">>), Desc(<<"id">>), Asc(<<"age">>), Desc(<<"age">>)}}
    \cup {Select("t", <<Star>>, <<>>, AllRows, Desc(<<"name">>), <<n>>) : n \in {0, 1, 2}}
    \cup {Select("t", <<Col(<<"id">>)>>, <<>>, <<Atom(<<"id">>, ">=", IntV(2))>>, Asc(<<"name">>), <<1>>)}
    \cup {Select("t", <<Star>>, JoinOn("u", <<"name">>, <<"ref">>), AllRows, o, l) :
            o \in {<<>>, Desc(<<"id">>)}, l \in {<<>>, <<1>>}}
    \cup {Select("t", <<Star>>, JoinOn("u", <<"t", "id">>, <<"u", "id">>), AllRows, <<>>, <<>>)}
    \cup {Select("t", c, <<>>, <<Atom(<<"id">>, ">=", IntV(2))>>, <<>>, <<>>) : c \in CountLists}
    \cup {Select("t", <<CountAs("n")>>, <<>>, AllRows, <<>>, <<1>>),
          Select("t", <<CountAs("count")>>, JoinOn("u", <<"name">>, <<"ref">>), AllRows, <<>>, <<>>)}

Asked(command, r) ==
    /\ call' = [op |-> "query", query |-> command]
    /\ result' = r.result
    /\ tables' = r.tables
    /\ snapshot' = r.file
    /\ UNCHANGED db_file

QueryCreate ==
    \E command \in QueryCreates :
        /\ command.table \notin DOMAIN tables
        /\ Returns(command, execute(tables, db_file, snapshot, command))

QueryInsert ==
    \E command \in QueryInserts :
        /\ command.table \in DOMAIN tables
        /\ Len(tables[command.table].rows)
              < (IF command.table = "t" THEN MaxLeftRows ELSE MaxRightRows)
        /\ Returns(command, execute(tables, db_file, snapshot, command))

QueryDelete ==
    \E command \in QueryDeletes :
        /\ command.table \in DOMAIN tables
        /\ Returns(command, execute(tables, db_file, snapshot, command))

Query ==
    \E command \in Queries :
        /\ command.command = "SELECT"
        /\ Asked(command, execute(tables, db_file, snapshot, command))

InitSelect ==
    /\ tables = <<>>
    /\ db_file = FALSE
    /\ snapshot = NoFile
    /\ call = [op |-> "none", query |-> ParseFailed("none")]
    /\ result = NoResult

NextSelect ==
    \/ QueryCreate
    \/ QueryInsert
    \/ QueryDelete
    \/ Query

SpecSelect == InitSelect /\ [][NextSelect]_vars

(***************************************************************************)
(* The tokenizer on one literal, and the value INSERT VALUES, UPDATE SET   *)
(* and a WHERE atom read from its token.                                   *)
(***************************************************************************)
KEYWORDS ==
    { <<"S", "E", "L", "E", "C", "T">>, <<"F", "R", "O", "M">>, <<"W", "H", "E", "R", "E">>,
      <<"I", "N", "S", "E", "R", "T">>, <<"I", "N", "T", "O">>, <<"V", "A", "L", "U", "E", "S">>,
      <<"U", "P", "D", "A", "T", "E">>, <<"S", "E", "T">>, <<"D", "E", "L", "E", "T", "E">>,
      <<"C", "R", "E", "A", "T", "E">>, <<"T", "A", "B", "L", "E">>, <<"D", "R", "O", "P">>,
      <<"P", "R", "I", "M", "A", "R", "Y">>, <<"K", "E", "Y">>, <<"U", "N", "I", "Q", "U", "E">>,
      <<"N", "O", "T">>, <<"N", "U", "L", "L">>, <<"I", "N", "T">>,
      <<"V", "A", "R", "C", "H", "A", "R">>, <<"B", "O", "O", "L", "E", "A", "N">>,
      <<"O", "R", "D", "E", "R">>, <<"B", "Y">>, <<"L", "I", "M", "I", "T">>, <<"A", "S", "C">>,
      <<"D", "E", "S", "C">>, <<"A", "N", "D">>, <<"O", "R">>, <<"I", "N", "N", "E", "R">>,
      <<"J", "O", "I", "N">>, <<"O", "N">>, <<"T", "R", "U", "E">>, <<"F", "A", "L", "S", "E">>,
      <<"I", "F">>, <<"E", "X", "I", "S", "T", "S">>, <<"A", "S">> }

\* A token: its type, the word of a KEYWORD or IDENTIFIER, the value of a
\* STRING, NUMBER or BOOLEAN.
Token(type, word, value) == [type |-> type, word |-> word, value |-> value]

\* Tokenizer.tokenize on the text of one literal: a quoted string, a number
\* without a fraction, or a word.
tokenize(text) ==
    IF text[1] = "'" THEN Token("STRING", <<>>, StrV(SubSeq(text, 2, Len(text) - 1)))
    ELSE IF IsDigit(text[1]) \/ (text[1] = "-" /\ Len(text) > 1 /\ IsDigit(text[2]))
         THEN Token("NUMBER", <<>>, PyInt(text))
    ELSE IF Upper(text) \in KEYWORDS THEN Token("KEYWORD", Upper(text), Null)
    ELSE IF Upper(text) = <<"T", "R", "U", "E">> THEN Token("BOOLEAN", <<>>, BoolV(TRUE))
    ELSE IF Upper(text) = <<"F", "A", "L", "S", "E">> THEN Token("BOOLEAN", <<>>, BoolV(FALSE))
    ELSE Token("IDENTIFIER", text, Null)

\* The value parse_insert, parse_update and parse_where read from the token
\* at a value's place.
parse_value(token) ==
    IF token.type \in {"STRING", "NUMBER", "BOOLEAN"} THEN [raised |-> "none", value |-> token.value]
    ELSE IF token.type = "KEYWORD" /\ token.word = <<"N", "U", "L", "L">>
         THEN [raised |-> "none", value |-> Null]
    ELSE [raised |-> "ParseError", value |-> Null]

\* A word in every mix of upper and lower case.
Cased(word) ==
    {[i \in DOMAIN word |-> IF i \in S THEN UpperChar(word[i]) ELSE word[i]] : S \in SUBSET DOMAIN word}

Literals ==
    Cased(<<"t", "r", "u", "e">>) \cup Cased(<<"f", "a", "l", "s", "e">>) \cup Cased(<<"n", "u", "l", "l">>)
    \cup {<<"1">>, <<"-", "2">>, <<"'", "t", "r", "u", "e", "'">>, <<"y", "e", "s">>, <<"t">>}

Clauses == {"VALUES", "SET", "WHERE"}

ReadLiteral ==
    /\ \E text \in Literals, clause \in Clauses :
         /\ call' = [op |-> "parse", clause |-> clause, text |-> text]
         /\ result' = [token |-> tokenize(text),
                       raised |-> parse_value(tokenize(text)).raised,
                       value |-> parse_value(tokenize(text)).value]
    /\ UNCHANGED <<tables, db_file, snapshot>>

InitTokens ==
    /\ tables = <<>>
    /\ db_file = FALSE
    /\ snapshot = NoFile
    /\ call = [op |-> "none", clause |-> "", text |-> <<>>]
    /\ result = [token |-> Token("none", <<>>, Null), raised |-> "none", value |-> Null]

NextTokens == ReadLiteral

SpecTokens == InitTokens /\ [][NextTokens]_vars

(***************************************************************************)
(* Integers at the edge of 64 bits, written as NUMBER and STRING literals, *)
(* inserted into and assigned to INT columns.                              *)
(***************************************************************************)
MaxIntRows == 2

IntSchema ==
    <<Column("id", "INT", NoLength, {"PRIMARY KEY"}), Column("n", "INT", NoLength, {})>>

\* 1, 2^63 - 1, 2^63, -2^63 and -2^63 - 1.
IntLiterals ==
    { <<"1">>,
      <<"9", "2", "2", "3", "3", "7", "2", "0", "3", "6", "8", "5", "4", "7", "7", "5", "8", "0", "7">>,
      <<"9", "2", "2", "3", "3", "7", "2", "0", "3", "6", "8", "5", "4", "7", "7", "5", "8", "0", "8">>,
      <<"-", "9", "2", "2", "3", "3", "7", "2", "0", "3", "6", "8", "5", "4", "7", "7", "5", "8", "0", "8">>,
      <<"-", "9", "2", "2", "3", "3", "7", "2", "0", "3", "6", "8", "5", "4", "7", "7", "5", "8", "0", "9">> }

\* The values of the literals, as NUMBER tokens and as STRING tokens.
IntValues ==
    {tokenize(text).value : text \in IntLiterals}
    \cup {tokenize(<<"'">> \o text \o <<"'">>).value : text \in IntLiterals}

InsertInt ==
    \E id \in IntValues, n \in IntValues \cup {Null} :
        LET r == insert_row(tables["t"], [c \in {"id", "n"} |-> IF c = "id" THEN id ELSE n])
        IN  /\ Len(tables["t"].rows) < MaxIntRows \/ r.raised # "none"
            /\ tables' = [tables EXCEPT !["t"] = r.table]
            /\ call' = [op |-> "insert_row", columns |-> {"id", "n"}, row_index |-> NoRowIndex]
            /\ result' = [raised |-> r.raised, ret |-> r.ret]
            /\ UNCHANGED <<db_file, snapshot>>

UpdateInt ==
    \E row_index \in 0 .. Len(tables["t"].rows) - 1, c \in {"id", "n"}, v \in IntValues :
        LET r == update_row(tables["t"], row_index, <<<<c, v>>>>)
        IN  /\ tables' = [tables EXCEPT !["t"] = r.table]
            /\ call' = [op |-> "update_row", columns |-> {c}, row_index |-> row_index]
            /\ result' = [raised |-> r.raised, ret |-> r.ret]
            /\ UNCHANGED <<db_file, snapshot>>

InitInt ==
    /\ tables = [n \in {"t"} |-> Table(n, IntSchema)]
    /\ db_file = FALSE
    /\ snapshot = NoFile
    /\ call = NoCall
    /\ result = NoResult

NextInt == InsertInt \/ UpdateInt

SpecInt == InitInt /\ [][NextInt]_vars

(***************************************************************************)
(* The parser over whole statements: the words of a statement are          *)
(* tokenized, parsed as UPDATE or DELETE, and the command is executed.     *)
(***************************************************************************)
MaxParseRows == 2

OPERATORS ==
    { <<"=">>, <<"!", "=">>, <<"<">>, <<"<", "=">>, <<">">>, <<">", "=">>, <<",">>, <<"(">>,
      <<")">>, <<";">>, <<"*">> }

\* The characters of the words the statements are written with.
Spelling ==
    "DELETE" :> <<"D", "E", "L", "E", "T", "E">> @@ "FROM" :> <<"F", "R", "O", "M">>
    @@ "UPDATE" :> <<"U", "P", "D", "A", "T", "E">> @@ "SET" :> <<"S", "E", "T">>
    @@ "WHERE" :> <<"W", "H", "E", "R", "E">> @@ "where" :> <<"w", "h", "e", "r", "e">>
    @@ "WHER" :> <<"W", "H", "E", "R">> @@ "'WHERE'" :> <<"'", "W", "H", "E", "R", "E", "'">>
    @@ "AND" :> <<"A", "N", "D">> @@ "t" :> <<"t">> @@ "id" :> <<"i", "d">>
    @@ "name" :> <<"n", "a", "m", "e">> @@ "=" :> <<"=">> @@ "," :> <<",">> @@ ";" :> <<";">>
    @@ "1" :> <<"1">> @@ "2" :> <<"2">> @@ "'x'" :> <<"'", "x", "'">>

\* The word that is spelled with the characters of text.
Read(text) == CHOOSE w \in DOMAIN Spelling : Spelling[w] = text

\* Tokenizer.tokenize on one word: an operator, or a literal or a name.
scan(text) == IF text \in OPERATORS THEN Token("OPERATOR", text, Null) ELSE tokenize(text)

\* Tokenizer.tokenize on a statement.
tokens_of(statement) == [i \in DOMAIN statement |-> scan(Spelling[statement[i]])]

\* token.value == text: the word of a keyword, name or operator, or the
\* content of a string.
value_is(token, text) == token.word = text \/ token.value = StrV(text)

\* Parser.expect at position pos (from 0) returns; otherwise it raises
\* ParseError.  An empty text stands for no expected value.
expect(tokens, pos, type, text) ==
    /\ pos < Len(tokens)
    /\ tokens[pos + 1].type = type
    /\ (text = <<>> \/ tokens[pos + 1].word = text)

Parsed(command, pos) == [raised |-> "none", command |-> command, pos |-> pos]

Unparsed(kind, pos) == [raised |-> kind, command |-> ParseFailed(kind), pos |-> pos]

\* Parser.parse_where from position pos: the conditions and the position
\* after them.  A clause that ends where a value is due makes
\* value_token.type an AttributeError.
RECURSIVE parse_where(_, _)
parse_where(tokens, pos) ==
    IF ~expect(tokens, pos, "IDENTIFIER", <<>>) THEN Unparsed("ParseError", pos)
    ELSE IF ~expect(tokens, pos + 1, "OPERATOR", <<>>) THEN Unparsed("ParseError", pos + 1)
    ELSE IF pos + 2 >= Len(tokens) THEN Unparsed("AttributeError", pos + 2)
    ELSE IF parse_value(tokens[pos + 3]).raised # "none" THEN Unparsed("ParseError", pos + 2)
    ELSE IF /\ pos + 3 < Len(tokens)
            /\ tokens[pos + 4].type = "KEYWORD"
            /\ tokens[pos + 4].word \in {<<"A", "N", "D">>, <<"O", "R">>}
         THEN IF parse_where(tokens, pos + 4).raised # "none" THEN parse_where(tokens, pos + 4)
              ELSE Parsed(<<Atom(<<Read(tokens[pos + 1].word)>>, Read(tokens[pos + 2].word),
                                 parse_value(tokens[pos + 3]).value),
                            Logic(Read(tokens[pos + 4].word))>>
                          \o parse_where(tokens, pos + 4).command,
                          parse_where(tokens, pos + 4).pos)
    ELSE Parsed(<<Atom(<<Read(tokens[pos + 1].word)>>, Read(tokens[pos + 2].word),
                       parse_value(tokens[pos + 3]).value)>>,
                pos + 3)

\* updates[column] = value: a column named again keeps its place.
assign(updates, column, value) ==
    IF \E i \in DOMAIN updates : updates[i][1] = column
    THEN [i \in DOMAIN updates |-> IF updates[i][1] = column THEN <<column, value>> ELSE updates[i]]
    ELSE Append(updates, <<column, value>>)

\* The SET loop of parse_update from position pos.
RECURSIVE parse_set(_, _, _)
parse_set(tokens, pos, updates) ==
    IF ~expect(tokens, pos, "IDENTIFIER", <<>>) THEN Unparsed("ParseError", pos)
    ELSE IF ~expect(tokens, pos + 1, "OPERATOR", <<"=">>) THEN Unparsed("ParseError", pos + 1)
    ELSE IF pos + 2 >= Len(tokens) THEN Unparsed("AttributeError", pos + 2)
    ELSE IF parse_value(tokens[pos + 3]).raised # "none" THEN Unparsed("ParseError", pos + 2)
    ELSE IF pos + 3 < Len(tokens) /\ value_is(tokens[pos + 4], <<",">>)
         THEN parse_set(tokens, pos + 4,
                        assign(updates, Read(tokens[pos + 1].word), parse_value(tokens[pos + 3]).value))
    ELSE Parsed(assign(updates, Read(tokens[pos + 1].word), parse_value(tokens[pos + 3]).value),
                pos + 3)

\* The end of parse_update and of parse_delete: a WHERE clause when the
\* current token's value is 'WHERE', and then the return.
where_clause(tokens, pos, command) ==
    IF pos < Len(tokens) /\ value_is(tokens[pos + 1], <<"W", "H", "E", "R", "E">>)
    THEN IF parse_where(tokens, pos + 1).raised # "none" THEN parse_where(tokens, pos + 1)
         ELSE Parsed([command EXCEPT !.where = parse_where(tokens, pos + 1).command],
                     parse_where(tokens, pos + 1).pos)
    ELSE Parsed(command, pos)

\* Parser.parse_update
parse_update(tokens) ==
    IF ~expect(tokens, 0, "KEYWORD", <<"U", "P", "D", "A", "T", "E">>) THEN Unparsed("ParseError", 0)
    ELSE IF ~expect(tokens, 1, "IDENTIFIER", <<>>) THEN Unparsed("ParseError", 1)
    ELSE IF ~expect(tokens, 2, "KEYWORD", <<"S", "E", "T">>) THEN Unparsed("ParseError", 2)
    ELSE IF parse_set(tokens, 3, <<>>).raised # "none" THEN parse_set(tokens, 3, <<>>)
    ELSE where_clause(tokens, parse_set(tokens, 3, <<>>).pos,
                      Update(Read(tokens[2].word), parse_set(tokens, 3, <<>>).command, AllRows))

\* Parser.parse_delete
parse_delete(tokens) ==
    IF ~expect(tokens, 0, "KEYWORD", <<"D", "E", "L", "E", "T", "E">>) THEN Unparsed("ParseError", 0)
    ELSE IF ~expect(tokens, 1, "KEYWORD", <<"F", "R", "O", "M">>) THEN Unparsed("ParseError", 1)
    ELSE IF ~expect(tokens, 2, "IDENTIFIER", <<>>) THEN Unparsed("ParseError", 2)
    ELSE where_clause(tokens, 3, Delete(Read(tokens[3].word), AllRows))

\* Parser.parse after the trailing ';' is removed: the dispatch on the first
\* keyword, for statements that are not CREATE, DROP, INSERT or SELECT.
parse_command(tokens) ==
    IF tokens = <<>> THEN Unparsed("ParseError", 0)
    ELSE IF tokens[1].type # "KEYWORD" THEN Unparsed("ParseError", 0)
    ELSE CASE tokens[1].word = <<"U", "P", "D", "A", "T", "E">> -> parse_update(tokens)
           [] tokens[1].word = <<"D", "E", "L", "E", "T", "E">> -> parse_delete(tokens)
           [] tokens[1].word \notin {<<"C", "R", "E", "A", "T", "E">>, <<"D", "R", "O", "P">>,
                                     <<"I", "N", "S", "E", "R", "T">>, <<"S", "E", "L", "E", "C", "T">>,
                                     <<"U", "P", "D", "A", "T", "E">>, <<"D", "E", "L", "E", "T", "E">>}
                -> Unparsed("ParseError", 0)

\* Parser.parse removing the trailing ';'.
unterminated(tokens) ==
    IF tokens # <<>> /\ tokens[Len(tokens)] = Token("OPERATOR", <<";">>, Null)
    THEN SubSeq(tokens, 1, Len(tokens) - 1)
    ELSE tokens

Stopped(p, length) == [raised |-> p.raised, command |-> p.command, left |-> length - p.pos]

\* Parser.parse: what it raised, the command it returned, and the number of
\* tokens after the position it stopped at.
parse(tokens) ==
    Stopped(parse_command(unterminated(tokens)), Len(unterminated(tokens)))

\* What may follow a complete UPDATE or DELETE: nothing, a WHERE clause,
\* a clause under a misspelled or quoted keyword, a clause cut short, and a
\* word after the clause.
Endings ==
    { <<>>, <<";">>, <<"WHERE", "id", "=", "1">>, <<"where", "id", "=", "2", ";">>,
      <<"WHER", "id", "=", "1">>, <<"'WHERE'", "id", "=", "1">>, <<"WHERE", "id", "=", "1", "t">>,
      <<"WHERE", "id", "=">>, <<"WHERE", "id", "=", "1", "AND">>,
      <<"WHERE", "id", "=", "1", "AND", "name", "=", "'x'">> }

DeleteStatements ==
    {<<"DELETE", "FROM", "t">> \o e : e \in Endings} \cup {<<"DELETE", "t">>}

UpdateStatements ==
    {<<"UPDATE", "t", "SET", "name", "=", "'x'">> \o e : e \in Endings}
    \cup {<<"UPDATE", "t", "SET", "name", "=", "'x'", ",", "name", "=", "1">>,
          <<"UPDATE", "t", "name", "=", "'x'">>}

OtherStatements == {<<";">>, <<"t">>, <<"FROM", "t">>}

\* QueryExecutor.execute on the text of a statement.
Ran(op, statement, left, r) ==
    /\ tables' = r.tables
    /\ snapshot' = r.file
    /\ call' = [op |-> op, statement |-> statement, left |-> left]
    /\ result' = r.result
    /\ UNCHANGED db_file

Run(statement) ==
    Ran("run", statement, parse(tokens_of(statement)).left,
        execute(tables, db_file, snapshot, parse(tokens_of(statement)).command))

\* The statements that set the table up, as parse returns them.
Prepared(command) == Ran("prepare", <<>>, 0, execute(tables, db_file, snapshot, command))

Define ==
    /\ "t" \notin DOMAIN tables
    /\ Prepared(Create("t", LeftSchema, FALSE))

Fill ==
    \E k \in 1 .. 2 :
        /\ "t" \in DOMAIN tables
        /\ Len(tables["t"].rows) < MaxParseRows
        /\ Prepared(Insert("t", <<>>, <<IntV(k), StrV(<<"a">>), Null>>))

RunUpdate ==
    \E statement \in UpdateStatements :
        /\ statement[1] = "UPDATE"
        /\ Run(statement)

RunDelete ==
    \E statement \in DeleteStatements :
        /\ statement[1] = "DELETE"
        /\ Run(statement)

RunOther ==
    \E statement \in OtherStatements :
        /\ statement[1] \notin {"UPDATE", "DELETE"}
        /\ Run(statement)

InitParse ==
    /\ tables = <<>>
    /\ db_file = TRUE
    /\ snapshot = NoFile
    /\ call = [op |-> "none", statement |-> <<>>, left |-> 0]
    /\ result = NoResult

NextParse == Define \/ Fill \/ RunUpdate \/ RunDelete \/ RunOther

SpecParse == InitParse /\ [][NextParse]_vars

(***************************************************************************)
(* Properties of the Table API (SpecTable).                                *)
(***************************************************************************)
LivePositions(T) == {p \in 0 .. Len(T.rows) - 1 : T.rows[p + 1] # None}

RowAt(T, p) == T.rows[p + 1][1]

DeclaredWith(T, constraint) ==
    {T.columns[i].name : i \in {j \in DOMAIN T.columns : constraint \in T.columns[j].constraints}}

\* C1: for every live row at position p and every indexed column c whose
\* value v in that row is not Null, indexes[c][v] = p; and every index entry
\* maps to the position of a live row that holds that value.
C1_IndexMatchesRows ==
    \A n \in DOMAIN tables :
        LET T == tables[n]
        IN  /\ \A p \in LivePositions(T) : \A c \in DOMAIN T.indexes :
                  RowAt(T, p)[c] # Null =>
                      /\ IndexHas(T.indexes[c], RowAt(T, p)[c])
                      /\ T.indexes[c][Key(RowAt(T, p)[c])] = p
            /\ \A c \in DOMAIN T.indexes : \A k \in DOMAIN T.indexes[c] :
                  /\ T.indexes[c][k] \in LivePositions(T)
                  /\ Key(RowAt(T, T.indexes[c][k])[c]) = k

\* C2: no two live rows of a table hold the same non-Null value in a column
\* declared PRIMARY KEY or in a column declared UNIQUE.
C2_NoDuplicateKeys ==
    \A n \in DOMAIN tables :
        LET T == tables[n]
        IN  \A c \in DeclaredWith(T, "PRIMARY KEY") \cup DeclaredWith(T, "UNIQUE") :
              \A p \in LivePositions(T), q \in LivePositions(T) :
                  (p # q /\ RowAt(T, p)[c] # Null) => ~PyEq(RowAt(T, p)[c], RowAt(T, q)[c])

\* C3: no live row holds Null in a column declared NOT NULL or PRIMARY KEY,
\* and an insert_row that omits such a column does not return normally: it
\* raises NotNullViolation (or DataTypeError, when a supplied value fails
\* coercion first).
C3_NotNullHolds ==
    \A n \in DOMAIN tables :
        LET T == tables[n]
            required == DeclaredWith(T, "NOT NULL") \cup DeclaredWith(T, "PRIMARY KEY")
        IN  /\ \A p \in LivePositions(T) : \A c \in required : RowAt(T, p)[c] # Null
            /\ (call.op = "insert_row" /\ required \ call.columns # {})
                  => result.raised \in {"NotNullViolation", "DataTypeError"}
            /\ (call.op \in {"insert_row", "update_row"} /\ result.raised = "NotNullViolation")
                  => required # {}

C3_Witness ==
    /\ call.op = "insert_row"
    /\ result.raised = "NotNullViolation"
    /\ "name" \in DeclaredWith(tables["t"], "NOT NULL")
    /\ "name" \notin call.columns
    /\ "id" \in call.columns
    /\ LivePositions(tables["t"]) # {}

\* C5: when update_row raises, the targeted row, every other row and every
\* index are exactly as before the call.
C5_FailedUpdateChangesNothing ==
    [][(call'.op = "update_row" /\ result'.raised # "none") => tables' = tables]_vars

C5_Witness ==
    /\ call.op = "update_row"
    /\ result.raised = "UniqueConstraintViolation"
    /\ Cardinality(LivePositions(tables["t"])) = 2

\* C7: no operation changes a slot other than the one it targets; insert_row
\* appends at position len(rows) and returns it; delete_row leaves a
\* tombstone in the slot; the row vector never shrinks.
C7_Step ==
    LET T == tables["t"]
        T2 == tables'["t"]
        target == call'.row_index
        inRange == target >= 0 /\ target < Len(T.rows)
    IN  /\ Len(T2.rows) >= Len(T.rows)
        /\ \A p \in 0 .. Len(T.rows) - 1 :
              (call'.op = "insert_row" \/ p # target) => T2.rows[p + 1] = T.rows[p + 1]
        /\ (call'.op = "insert_row" /\ result'.raised = "none") =>
              /\ result'.ret = Len(T.rows)
              /\ Len(T2.rows) = Len(T.rows) + 1
              /\ T2.rows[Len(T2.rows)] # None
        /\ (call'.op # "insert_row" \/ result'.raised # "none") => Len(T2.rows) = Len(T.rows)
        /\ (call'.op = "delete_row" /\ result'.raised = "none" /\ inRange) =>
              T2.rows[target + 1] = None

C7_FrameOfTableOperations == [][C7_Step]_vars

C7_Witness ==
    /\ call.op = "insert_row"
    /\ result.raised = "none"
    /\ result.ret = 1
    /\ tables["t"].rows[1] = None
    /\ tables["t"].rows[2] # None

\* The row insert_row builds from a dict when every value can be coerced.
Coerced(T, values) ==
    [c \in ColumnNames(T.columns) |-> validate_value(get_column(T, c), Get(values, c))]

CollisionErrors == {"PrimaryKeyViolation", "UniqueConstraintViolation"}

\* C26: inserting or updating a row so that a PRIMARY KEY column of it is
\* Null raises NotNullViolation, and never PrimaryKeyViolation or
\* UniqueConstraintViolation, whatever keys the table holds: the NOT NULL
\* check comes before the collision checks (a value that cannot be coerced
\* or a column that does not exist is reported before either).
C26_NullKeyIsNotNullViolation ==
    LET T == tables["t"]
        keys == DeclaredWith(T, "PRIMARY KEY")
    IN  /\ \A values \in ValueDicts(T) :
               (\E k \in keys : Get(values, k) = Null) =>
                   /\ insert_row(T, values).raised \notin CollisionErrors \cup {"none"}
                   /\ (\A c \in ColumnNames(T.columns) : Coerced(T, values)[c].raised = "none") =>
                          insert_row(T, values).raised = "NotNullViolation"
        /\ \A p \in LivePositions(T) : \A updates \in UpdateLists(T) :
               LET applied == apply_updates(T, RowAt(T, p), updates)
               IN  /\ (\E i \in DOMAIN updates : updates[i][1] \in keys /\ updates[i][2] = Null) =>
                          update_row(T, p, updates).raised \notin CollisionErrors \cup {"none"}
                   /\ (applied.raised = "none" /\ \E k \in keys : applied.row[k] = Null) =>
                          update_row(T, p, updates).raised = "NotNullViolation"

\* An insert_row without a value for the primary key, and with a value for a
\* second column, has raised NotNullViolation on a table that holds a row.
C26_Witness ==
    /\ call.op = "insert_row"
    /\ DeclaredWith(tables["t"], "PRIMARY KEY") = {"id"}
    /\ call.columns = {"email"}
    /\ result.raised = "NotNullViolation"
    /\ LivePositions(tables["t"]) # {}

\* C27: an update_row that assigns a live row its own current PRIMARY KEY or
\* UNIQUE value succeeds, because the collision check leaves out the row's
\* own position, and leaves the row vector and every index as they were.
C27_OwnKeyUpdateChangesNothing ==
    LET T == tables["t"]
    IN  \A p \in LivePositions(T) :
            \A c \in DeclaredWith(T, "PRIMARY KEY") \cup DeclaredWith(T, "UNIQUE") :
                update_row(T, p, <<<<c, RowAt(T, p)[c]>>>>) = Returned(T, NoRowIndex)

\* C14: an insert_row whose values name a column that is not in the schema
\* raises ColumnNotFoundError and stores no row.
C14_UnknownInsertKeyRejected ==
    [][(call'.op = "insert_row" /\ call'.columns \ ColumnNames(tables["t"].columns) # {}) =>
          /\ result'.raised = "ColumnNotFoundError"
          /\ tables' = tables]_vars

OutOfRange(T, position) == position < 0 \/ position >= Len(T.rows)

Tombstoned(T, position) == ~OutOfRange(T, position) /\ T.rows[position + 1] = None

\* C15: update_row at a position that is out of range or holds a tombstone
\* raises nothing and changes no row and no index.
C15_UpdateOutsideIsNoOp ==
    [][(/\ call'.op = "update_row"
        /\ \/ OutOfRange(tables["t"], call'.row_index)
           \/ Tombstoned(tables["t"], call'.row_index)) =>
          /\ result'.raised = "none"
          /\ tables' = tables]_vars

\* C16: delete_row at a position that is out of range or already holds a
\* tombstone raises nothing and changes no row and no index, in tables with
\* indexed columns and in tables without.
C16_DeleteOutsideIsNoOp ==
    [][(/\ call'.op = "delete_row"
        /\ \/ OutOfRange(tables["t"], call'.row_index)
           \/ Tombstoned(tables["t"], call'.row_index)) =>
          /\ result'.raised = "none"
          /\ tables' = tables]_vars

\* The columns declared PRIMARY KEY or UNIQUE.
KeyColumns(T) == DeclaredWith(T, "PRIMARY KEY") \cup DeclaredWith(T, "UNIQUE")

\* T with no value of column c taken: what insert_row and update_row do
\* when c raises no collision.
Unchecked(T, c) == [T EXCEPT !.indexes[c] = <<>>]

\* The value given for column c is stored as v.
Stores(T, c, given, v) == validate_value(get_column(T, c), given) = Ok(v)

\* Every insert_row and update_row that puts v in column c of T, and that
\* nothing but a collision on c could stop, succeeds, and the index of c
\* then maps v to the position of the row that took it.
Reusable(T, c, v) ==
    /\ \A d \in ValueDicts(T) :
          (/\ c \in DOMAIN d
           /\ Stores(T, c, d[c], v)
           /\ insert_row(Unchecked(T, c), d).raised = "none") =>
              /\ insert_row(T, d).raised = "none"
              /\ insert_row(T, d).table.indexes[c][Key(v)] = insert_row(T, d).ret
    /\ \A q \in LivePositions(T), w \in Values :
          (/\ Stores(T, c, w, v)
           /\ update_row(Unchecked(T, c), q, <<<<c, w>>>>).raised = "none") =>
              /\ update_row(T, q, <<<<c, w>>>>).raised = "none"
              /\ update_row(T, q, <<<<c, w>>>>).table.indexes[c][Key(v)] = q

\* The row at p gives up the value v of column c when it is updated to w.
UpdatedAway(T, p, c, w, v) ==
    /\ update_row(T, p, <<<<c, w>>>>).raised = "none"
    /\ RowAt(update_row(T, p, <<<<c, w>>>>).table, p)[c] # v

\* C39: a PRIMARY KEY or UNIQUE value is released when its row is deleted or
\* updated away from it: an insert_row or update_row that uses the value
\* afterwards succeeds, and the index then maps the value to the position of
\* the new holder.
C39_ReleasedKeyIsReusable ==
    "t" \in DOMAIN tables =>
        \A p \in LivePositions(tables["t"]), c \in KeyColumns(tables["t"]) :
            RowAt(tables["t"], p)[c] # Null =>
                /\ Reusable(delete_row(tables["t"], p).table, c, RowAt(tables["t"], p)[c])
                /\ \A w \in Values :
                       UpdatedAway(tables["t"], p, c, w, RowAt(tables["t"], p)[c]) =>
                           Reusable(update_row(tables["t"], p, <<<<c, w>>>>).table, c,
                                    RowAt(tables["t"], p)[c])

\* An insert_row has succeeded at position 1 after the row at position 0 was
\* deleted, and the key of the new row, once that row is deleted too, is
\* taken again by an insert_row that succeeds.
C39_Witness ==
    /\ "t" \in DOMAIN tables
    /\ call.op = "insert_row"
    /\ result.raised = "none"
    /\ Len(tables["t"].rows) = 2
    /\ tables["t"].rows[1] = None
    /\ tables["t"].rows[2] # None
    /\ \E c \in KeyColumns(tables["t"]) :
          /\ RowAt(tables["t"], 1)[c] # Null
          /\ tables["t"].indexes[c][Key(RowAt(tables["t"], 1)[c])] = 1
          /\ \E d \in ValueDicts(tables["t"]) :
                /\ c \in DOMAIN d
                /\ Stores(tables["t"], c, d[c], RowAt(tables["t"], 1)[c])
                /\ insert_row(tables["t"], d).raised \in CollisionErrors
                /\ insert_row(delete_row(tables["t"], 1).table, d).raised = "none"
                /\ insert_row(delete_row(tables["t"], 1).table, d).ret = 2

(***************************************************************************)
(* Properties of the executor (Spec).                                      *)
(***************************************************************************)
Mutating == {"CREATE", "DROP", "INSERT", "UPDATE", "DELETE"}

InsertErrors ==
    {"DataTypeError", "NotNullViolation", "PrimaryKeyViolation", "UniqueConstraintViolation"}

ConstraintViolations == {"NotNullViolation", "PrimaryKeyViolation", "UniqueConstraintViolation"}

LiveRows(T) == SelectSeq(T.rows, IsLive)

Serialized(db_tables) == [exists |-> TRUE, tables |-> [n \in DOMAIN db_tables |-> to_dict(db_tables[n])]]

\* C4: when insert_row raises DataTypeError, NotNullViolation,
\* PrimaryKeyViolation or UniqueConstraintViolation, the table (its row
\* vector and every index) is exactly as before the call, and the INSERT
\* that called it through execute returns success = false; an INSERT that
\* returns success = true has appended one row.
C4_FailedInsertChangesNothing ==
    [][(call'.op = "execute" /\ call'.command = "INSERT") =>
          /\ (~result'.success) => tables' = tables /\ snapshot' = snapshot
          /\ (call'.table \in DOMAIN tables /\ result'.success) =>
                Len(tables'[call'.table].rows) = Len(tables[call'.table].rows) + 1
          /\ (result'.success) <=> (DOMAIN result' = {"success", "message"})
          /\ (~result'.success /\ ~result'.error.unexpected) =>
                result'.error.kind \in InsertErrors \cup {"TableNotFoundError", "CountMismatch"}]_vars

C4_Witness ==
    /\ call.op = "execute"
    /\ call.command = "INSERT"
    /\ ~result.success
    /\ result.error.kind = "UniqueConstraintViolation"
    /\ Len(tables["t"].rows) = 1
    /\ RowAt(tables["t"], 0)["email"] = StrV(<<"1">>)
    /\ tables["t"].indexes["email"] = IndexPut(<<>>, StrV(<<"1">>), 0)

\* The row an UPDATE's assignments make of a row: each assigned column holds
\* the coerced value of its last assignment.
Assigned(T, row, updates) ==
    [c \in DOMAIN row |->
        IF \E i \in DOMAIN updates : updates[i][1] = c
        THEN LET last == CHOOSE i \in DOMAIN updates :
                            updates[i][1] = c /\ \A j \in DOMAIN updates : updates[j][1] = c => j <= i
             IN  validate_value(get_column(T, c), updates[last][2]).value
        ELSE row[c]]

\* C6: when update_row raises a constraint violation on the k-th matched row
\* of an UPDATE (rows taken in ascending position order), execute returns
\* success = false, the first k-1 matched rows hold their updated values
\* and their index entries point at them, and the k-th and all later matched
\* rows, like every row not matched, are as before.
C6_Step ==
    (call'.op = "execute" /\ call'.command = "UPDATE" /\ call'.table \in DOMAIN tables
        /\ update_each(tables[call'.table], find_rows(tables[call'.table], call'.where).indexes,
                       call'.updates).raised \in ConstraintViolations) =>
        LET T == tables[call'.table]
            T2 == tables'[call'.table]
            found == find_rows(T, call'.where).indexes
            matched == {found[j] : j \in DOMAIN found}
        IN  /\ ~result'.success
            /\ result'.error.kind \in ConstraintViolations
            /\ DOMAIN tables' = DOMAIN tables
            /\ Len(T2.rows) = Len(T.rows)
            /\ \A j \in 1 .. Len(found) - 1 : found[j] < found[j + 1]
            /\ \A p \in 0 .. Len(T.rows) - 1 : p \notin matched => T2.rows[p + 1] = T.rows[p + 1]
            /\ \E k \in DOMAIN found :
                  /\ \A j \in 1 .. k - 1 :
                        /\ T2.rows[found[j] + 1] = Some(Assigned(T, RowAt(T, found[j]), call'.updates))
                        /\ \A c \in DOMAIN T2.indexes :
                              RowAt(T2, found[j])[c] # Null =>
                                  /\ IndexHas(T2.indexes[c], RowAt(T2, found[j])[c])
                                  /\ T2.indexes[c][Key(RowAt(T2, found[j])[c])] = found[j]
                  /\ \A j \in k .. Len(found) : T2.rows[found[j] + 1] = T.rows[found[j] + 1]
                  /\ update_row(T2, found[k], call'.updates).raised = result'.error.kind

C6_PartialUpdateIsKept == [][C6_Step]_vars

C6_Witness ==
    /\ call.op = "execute"
    /\ call.command = "UPDATE"
    /\ call.updates = Set("email", StrV(<<"1">>))
    /\ call.where = AllRows
    /\ ~result.success
    /\ result.error.kind = "UniqueConstraintViolation"
    /\ LivePositions(tables["t"]) = {0, 1}
    /\ RowAt(tables["t"], 0)["email"] = StrV(<<"1">>)
    /\ RowAt(tables["t"], 1)["email"] = Null
    /\ snapshot.tables["t"].rows[1]["email"] = JsonOf(Null)

\* C8: in every reachable state, save followed by load into a fresh Database
\* on the same file raises nothing and yields the same table names, the
\* same column definitions per table and the same sequence of live rows per
\* table.
C8_SaveLoadRoundTrip ==
    LET loaded == load(<<>>, TRUE, save(tables, TRUE, snapshot))
    IN  /\ loaded.raised = "none"
        /\ DOMAIN loaded.tables = DOMAIN tables
        /\ \A n \in DOMAIN tables :
              /\ loaded.tables[n].name = tables[n].name
              /\ loaded.tables[n].columns = tables[n].columns
              /\ LiveRows(loaded.tables[n]) = LiveRows(tables[n])

C8_Witness ==
    /\ DOMAIN tables = {"t", "u"}
    /\ Len(tables["t"].rows) = 2
    /\ tables["t"].rows[1] = None
    /\ tables["t"].rows[2] # None
    /\ Len(load(<<>>, TRUE, save(tables, TRUE, snapshot)).tables["t"].rows) = 1
    /\ RowAt(load(<<>>, TRUE, save(tables, TRUE, snapshot)).tables["t"], 0) = RowAt(tables["t"], 1)

Skipped == Message("skipped", 0)

Shape(command, res) ==
    \/ /\ ~res.success
       /\ DOMAIN res = {"success", "error"}
       /\ res.error.unexpected <=> res.error.kind \notin SimpleDBErrors \cup {"CountMismatch"}
    \/ /\ res.success
       /\ command = "SELECT"
       /\ DOMAIN res = {"success", "columns", "rows", "count"}
       /\ res.count = Len(res.rows)
    \/ /\ res.success
       /\ command \in Mutating
       /\ DOMAIN res = {"success", "message"}

Statements ==
    CreateCommands \cup DropCommands \cup InsertCommands \cup SelectCommands
        \cup UpdateCommands \cup DeleteCommands \cup {ParseFailed(kind) : kind \in ParseFailures}

C10_ExecuteNeverRaises ==
    /\ call.op = "execute" => Shape(call.command, result)
    /\ \A command \in Statements :
          /\ execute(tables, db_file, snapshot, command).raised = "none"
          /\ Shape(command.command, execute(tables, db_file, snapshot, command).result)

C10_Witness ==
    /\ call.op = "execute"
    /\ call.command = "SELECT"
    /\ ~result.success
    /\ result.error = [unexpected |-> TRUE, kind |-> "TypeError"]
    /\ LivePositions(tables["t"]) # {}

NamesUnknownColumn(command) ==
    /\ command.table \in DOMAIN tables
    /\ command.where # NoConditions
    /\ \E i \in DOMAIN command.where :
          /\ "column" \in DOMAIN command.where[i]
          /\ RawName(command.where[i].column) \notin ColumnNames(tables[command.table].columns)

\* C13: whenever the WHERE clause of a SELECT, UPDATE or DELETE names a
\* column that is not in the table's schema, the statement fails with
\* ColumnNotFoundError and changes neither the tables nor the snapshot, in
\* every table state (an empty table and a table of tombstones included).
C13_UnknownWhereColumnFails ==
    \A command \in SelectCommands \cup UpdateCommands \cup DeleteCommands :
        NamesUnknownColumn(command) =>
            /\ execute(tables, db_file, snapshot, command).result = Failure(FALSE, "ColumnNotFoundError")
            /\ execute(tables, db_file, snapshot, command).tables = tables
            /\ execute(tables, db_file, snapshot, command).file = snapshot

\* The columns a table treats as primary key: declared PRIMARY KEY, indexed
\* and NOT NULL.
PrimaryKeys(T) ==
    {c \in DeclaredWith(T, "PRIMARY KEY") : c \in DOMAIN T.indexes /\ c \in T.not_null_columns}

\* C24: every table in every reachable state has at most one PRIMARY KEY
\* column, also after a CREATE TABLE whose column list marks two columns
\* PRIMARY KEY.
C24_AtMostOnePrimaryKey ==
    \A n \in DOMAIN tables : Cardinality(PrimaryKeys(tables[n])) <= 1

\* The positions of T's live rows that satisfy the clause.
Matching(T, where) ==
    {p \in LivePositions(T) :
        evaluate_conditions(RowAt(T, p), IF where = NoConditions THEN <<>> ELSE where).value}

\* positions lists the members of the set, each once, in ascending order.
Ascending(positions, members) ==
    /\ {positions[i] : i \in DOMAIN positions} = members
    /\ \A i, j \in DOMAIN positions : i < j => positions[i] < positions[j]

\* find_rows and the plain SELECT over every table and clause, in this state.
FoundInPositionOrder ==
    \A n \in DOMAIN tables : \A where \in WhereClauses :
        LET T == tables[n]
            found == find_rows(T, where)
            selected == execute(tables, db_file, snapshot,
                                Select(n, <<Star>>, <<>>, where, <<>>, <<>>)).result
        IN  found.raised = "none" =>
                /\ Ascending(found.indexes, Matching(T, where))
                /\ selected.success
                /\ selected.rows = [i \in DOMAIN found.indexes |-> RowAt(T, found.indexes[i])]

\* A statement leaves every row at its position: rows are only appended, and
\* a tombstone stays a tombstone.
PositionsKept ==
    \A n \in DOMAIN tables \cap DOMAIN tables' :
        /\ Len(tables'[n].rows) >= Len(tables[n].rows)
        /\ \A i \in DOMAIN tables[n].rows :
               tables[n].rows[i] = None => tables'[n].rows[i] = None

\* C22: find_rows with any predicate, and a SELECT with no ORDER BY, LIMIT or
\* JOIN, list exactly the live rows matching the predicate in ascending
\* position, which is their insertion order, after any interleaving of
\* inserts, updates and deletes: no statement moves a row, and a tombstone
\* is never returned.
C22_RowsInInsertionOrder ==
    /\ []FoundInPositionOrder
    /\ [][call'.op = "execute" => PositionsKept]_vars

\* A plain SELECT has returned the one live row of a table whose first row
\* was deleted.
C22_Witness ==
    /\ call.op = "execute"
    /\ call.command = "SELECT"
    /\ call.table = "t"
    /\ result.success
    /\ Len(tables["t"].rows) = 2
    /\ tables["t"].rows[1] = None
    /\ tables["t"].rows[2] # None
    /\ result.rows = <<RowAt(tables["t"], 1)>>

\* A DELETE on an existing table whose predicate can be evaluated on every
\* live row: before and after.
C25_Step ==
    (/\ call'.op = "execute"
     /\ call'.command = "DELETE"
     /\ call'.table \in DOMAIN tables
     /\ find_rows(tables[call'.table], call'.where).raised = "none") =>
        LET before == tables[call'.table]
            after == tables'[call'.table]
            matched == Matching(before, call'.where)
        IN  /\ result'.success
            /\ result'.message.n = Cardinality(matched)
            /\ Len(after.rows) = Len(before.rows)
            /\ \A p \in 0 .. Len(before.rows) - 1 :
                   after.rows[p + 1] = IF p \in matched THEN None ELSE before.rows[p + 1]
            /\ \A c \in DOMAIN after.indexes : \A v \in DOMAIN after.indexes[c] :
                   after.indexes[c][v] \notin matched
            /\ matched = LivePositions(before) =>
                   /\ find_rows(after, NoConditions).indexes = <<>>
                   /\ \A i \in DOMAIN after.rows : after.rows[i] = None

\* C25: a DELETE with predicate p tombstones exactly the live rows that match
\* p at the start of the statement, leaves every other row and the length of
\* the row vector unchanged, removes the deleted rows' index entries and
\* reports the number of matched rows; when p matches every live row,
\* find_rows(null) afterwards returns [] and the row vector holds only
\* tombstones.
C25_DeleteTombstonesMatches == [][C25_Step]_vars

\* A DELETE with a WHERE clause has deleted one of two rows.
C25_Witness ==
    /\ call.op = "execute"
    /\ call.command = "DELETE"
    /\ call.where # AllRows
    /\ result.success
    /\ result.message.n = 1
    /\ Len(tables["t"].rows) = 2
    /\ \E i, j \in DOMAIN tables["t"].rows :
           tables["t"].rows[i] = None /\ tables["t"].rows[j] # None

\* C28: CREATE TABLE IF NOT EXISTS on a table name that exists returns
\* success with a message saying the table was skipped and leaves the table's
\* schema, rows and indexes unchanged, also when the new column list
\* differs; issued twice in a row for a new name, both calls succeed and the
\* table is created once.
C28_CreateIfNotExistsSkips ==
    \A first \in {c \in CreateCommands : c.if_not_exists} :
        LET once == execute(tables, db_file, snapshot, first)
        IN  IF first.table \in DOMAIN tables
            THEN /\ once.result = Skipped
                 /\ once.tables = tables
            ELSE /\ once.result = Message("created", 0)
                 /\ once.tables[first.table] = Table(first.table, first.columns)
                 /\ \A second \in {c \in CreateCommands : c.if_not_exists /\ c.table = first.table} :
                        LET twice == execute(once.tables, db_file, once.file, second)
                        IN  /\ twice.result = Skipped
                            /\ twice.tables = once.tables

\* A CREATE TABLE IF NOT EXISTS has been skipped on a table that holds a row.
C28_Witness ==
    /\ call.op = "execute"
    /\ call.command = "CREATE"
    /\ result = Skipped
    /\ call.table \in DOMAIN tables
    /\ LivePositions(tables[call.table]) # {}
    /\ tables[call.table].indexes # Table(call.table, tables[call.table].columns).indexes

(***************************************************************************)
(* Properties of WHERE evaluation (SpecWhere).                             *)
(***************************************************************************)
Connect(connector, left, right) == IF connector = "AND" THEN left /\ right ELSE left \/ right

Truth(i) == evaluate_atom(RowAt(tables["t"], 0), call.conditions[i]).value

\* C11: a WHERE clause is evaluated left to right with no precedence: one
\* atom gives (true AND a); a c b gives ((true AND a) c b); a c b d e gives
\* (((true AND a) c b) d e), so that a OR b AND c is ((true AND a) OR b)
\* AND c.
C11_LeftToRightFold ==
    (call.op = "evaluate_conditions" /\ result.raised = "none") =>
        result.value =
            CASE Len(call.conditions) = 1 -> Connect("AND", TRUE, Truth(1))
              [] Len(call.conditions) = 3 ->
                    Connect(call.conditions[2].logic, Connect("AND", TRUE, Truth(1)), Truth(3))
              [] Len(call.conditions) = 5 ->
                    Connect(call.conditions[4].logic,
                            Connect(call.conditions[2].logic, Connect("AND", TRUE, Truth(1)), Truth(3)),
                            Truth(5))

C11_Witness ==
    /\ call.op = "evaluate_conditions"
    /\ Len(call.conditions) = 5
    /\ call.conditions[2].logic = "OR"
    /\ call.conditions[4].logic = "AND"
    /\ result.raised = "none"
    /\ Truth(1)
    /\ ~Truth(5)
    /\ ~result.value

SameKind(a, b) == a.t = b.t

\* The ordering of two values of one kind: numeric for Integers,
\* lexicographic for Text.
Before(a, b) == IF a.t = "str" THEN TextLess(a.s, b.s) ELSE a.n < b.n

\* C12: for one atom, = is true exactly when the row value and the literal
\* are the same value (Null = Null is true, Null = v is false for non-Null
\* v) and != is its negation; <, <=, > and >= are false when either side is
\* Null and otherwise compare the two values (numbers numerically, texts
\* lexicographically; the ordering of values of different kinds is left
\* open).
C12_AtomComparison ==
    (call.op = "evaluate_conditions" /\ Len(call.conditions) = 1) =>
        LET operator == call.conditions[1].operator
            row_value == RowAt(tables["t"], 0)[RawName(call.conditions[1].column)]
            value == call.conditions[1].value
        IN  CASE operator = "=" -> result = [raised |-> "none", value |-> row_value = value]
              [] operator = "!=" -> result = [raised |-> "none", value |-> row_value # value]
              [] row_value = Null \/ value = Null -> result = [raised |-> "none", value |-> FALSE]
              [] ~SameKind(row_value, value) -> TRUE
              [] operator = "<" -> result = [raised |-> "none", value |-> Before(row_value, value)]
              [] operator = "<=" -> result = [raised |-> "none", value |-> ~Before(value, row_value)]
              [] operator = ">" -> result = [raised |-> "none", value |-> Before(value, row_value)]
              [] operator = ">=" -> result = [raised |-> "none", value |-> ~Before(row_value, value)]

(***************************************************************************)
(* Properties of SELECT (SpecSelect).                                      *)
(***************************************************************************)
Asks == call.op = "query" /\ call.query.table \in DOMAIN tables

\* The live rows of the queried table that match the WHERE clause, in
\* ascending position.
Fetched ==
    LET T == tables[call.query.table]
        found == find_rows(T, call.query.where).indexes
    IN  [i \in DOMAIN found |-> RowAt(T, found[i])]

FirstN(rows, n) == SubSeq(rows, 1, IF n < Len(rows) THEN n ELSE Len(rows))

\* The rows the query returns when a clause is taken away.
RowsWithout(clause) ==
    execute(tables, db_file, snapshot, [call.query EXCEPT ![clause] = <<>>]).result.rows

SucceedsWithout(clause) ==
    execute(tables, db_file, snapshot, [call.query EXCEPT ![clause] = <<>>]).result.success

\* C17: a SELECT with LIMIT n, for every n >= 0, returns exactly the first
\* min(n, k) of the k rows that remain after WHERE and ORDER BY; LIMIT 0
\* returns no rows.
C17_LimitKeepsFirstN ==
    (Asks /\ call.query.limit # <<>> /\ call.query.join = <<>> /\ SucceedsWithout("limit")) =>
        /\ result.success
        /\ result.rows = FirstN(RowsWithout("limit"), call.query.limit[1])

\* C18: SELECT applies WHERE, then ORDER BY, then LIMIT, then JOIN, then the
\* projection: LIMIT n keeps the first n rows of the filtered and sorted
\* list, and with a JOIN it bounds the left-side rows before they are
\* joined.
C18_ClauseOrder ==
    (Asks /\ result.success) =>
        LET q == call.query
            sorted == IF q.order_by = <<>> THEN Fetched
                      ELSE sort_rows(Fetched, RawName(q.order_by[1].column),
                                     q.order_by[1].direction = "DESC")
            limited == IF q.limit = <<>> THEN sorted ELSE FirstN(sorted, q.limit[1])
            joined == IF q.join = <<>> THEN limited
                      ELSE join_rows(limited, tables[q.join[1].table],
                                     LastPart(q.join[1].left), LastPart(q.join[1].right))
        IN  result.rows = IF q.columns = <<Star>> THEN joined
                          ELSE [i \in DOMAIN joined |-> project_row(joined[i], q.columns)]

\* The value a row holds under a column name, Null when it holds none.
Held(row, column) == IF column \in DOMAIN row THEN row[column] ELSE Null

\* The pairs (left row, live join-table position) whose ON columns are equal.
Pairs(lefts, U, on) ==
    {pair \in (DOMAIN lefts) \X LivePositions(U) :
        Held(lefts[pair[1]], LastPart(on.left)) = Held(RowAt(U, pair[2]), LastPart(on.right))}

\* The place of a pair when the pairs are ordered by left row, then by
\* join-table position.
Rank(pair, pairs) ==
    1 + Cardinality({other \in pairs :
                        \/ other[1] < pair[1]
                        \/ other[1] = pair[1] /\ other[2] < pair[2]})

\* merged holds every left column, and every join-table column under its own
\* name, or under '<joinTable>.<column>' when the left row has that name.
IsMerged(merged, left, right, name) ==
    LET stored(c) == IF c \in DOMAIN left THEN name \o "." \o c ELSE c
    IN  /\ DOMAIN merged = DOMAIN left \cup {stored(c) : c \in DOMAIN right}
        /\ \A c \in DOMAIN left : merged[c] = left[c]
        /\ \A c \in DOMAIN right : merged[stored(c)] = right[c]

\* C19: SELECT ... JOIN u ON a = b yields one merged row for every pair of a
\* selected left row and a live row of u whose ON columns are equal, ordered
\* by left row and then by position in u; left rows without a match are
\* dropped, and a join-table column whose name collides with a left column
\* is stored as '<joinTable>.<column>'.
C19_JoinPairs ==
    (/\ Asks
     /\ call.query.join # <<>>
     /\ call.query.join[1].table \in DOMAIN tables
     /\ call.query.columns = <<Star>>) =>
        LET on == call.query.join[1]
            U == tables[on.table]
            lefts == RowsWithout("join")
            pairs == Pairs(lefts, U, on)
        IN  /\ result.success
            /\ Len(result.rows) = Cardinality(pairs)
            /\ \A pair \in pairs :
                   IsMerged(result.rows[Rank(pair, pairs)], lefts[pair[1]],
                            RowAt(U, pair[2]), on.table)

\* The key ORDER BY sorts on: the column's value, the empty text for Null.
OrderKey(row, column) == IF Held(row, column) = Null THEN StrV(<<>>) ELSE Held(row, column)

\* sorted holds the rows of base, each once, and places[i] is the place in
\* base of the row at place i of sorted.
Rearranges(places, sorted, base) ==
    /\ Len(sorted) = Len(base)
    /\ \A i \in DOMAIN base : \E j \in DOMAIN places : places[j] = i
    /\ \A j \in DOMAIN sorted : sorted[j] = base[places[j]]

\* C20: ORDER BY ... ASC returns the rows in non-decreasing key order and
\* DESC in non-increasing key order, and in both directions rows with equal
\* keys keep the order they had before sorting.
C20_OrderByIsStable ==
    (/\ Asks
     /\ call.query.order_by # <<>>
     /\ call.query.limit = <<>>
     /\ call.query.join = <<>>
     /\ call.query.columns = <<Star>>
     /\ result.success) =>
        LET column == RawName(call.query.order_by[1].column)
            descending == call.query.order_by[1].direction = "DESC"
            base == Fetched
            key(i) == OrderKey(base[i], column)
        IN  \E places \in [DOMAIN base -> DOMAIN base] :
                /\ Rearranges(places, result.rows, base)
                /\ \A i, j \in DOMAIN base :
                       i < j =>
                           /\ ~ (IF descending
                                 THEN PyLess(key(places[i]), key(places[j]))
                                 ELSE PyLess(key(places[j]), key(places[i])))
                           /\ key(places[i]) = key(places[j]) => places[i] < places[j]

\* ORDER BY name DESC over three rows, two of which share a name, has put the
\* greater name first and kept the two equal names in table order.
C20_Witness ==
    /\ Asks
    /\ call.query.order_by # <<>>
    /\ call.query.order_by[1].direction = "DESC"
    /\ RawName(call.query.order_by[1].column) = "name"
    /\ call.query.limit = <<>>
    /\ call.query.join = <<>>
    /\ result.success
    /\ Len(result.rows) = 3
    /\ result.rows[1].name = StrV(<<"b">>)
    /\ result.rows[2].name = StrV(<<"a">>)
    /\ result.rows[3].name = StrV(<<"a">>)
    /\ result.rows[2].id = IntV(2)
    /\ result.rows[3].id = IntV(3)

\* C21: a SELECT with ORDER BY on a column that holds Nulls succeeds, for a
\* VARCHAR column and for an INT column alike, and returns the rows ordered
\* as if the key of a Null were the empty text (keys that cannot be compared
\* with one another may come in any order).
C21_NullKeysSortAsEmptyText ==
    (/\ Asks
     /\ call.query.order_by # <<>>
     /\ call.query.limit = <<>>
     /\ call.query.join = <<>>
     /\ call.query.columns = <<Star>>
     /\ \E i \in DOMAIN Fetched :
            Held(Fetched[i], RawName(call.query.order_by[1].column)) = Null) =>
        LET column == RawName(call.query.order_by[1].column)
            descending == call.query.order_by[1].direction = "DESC"
            base == Fetched
            key(i) == OrderKey(base[i], column)
        IN  /\ result.success
            /\ \E places \in [DOMAIN base -> DOMAIN base] :
                   /\ Rearranges(places, result.rows, base)
                   /\ \A i, j \in DOMAIN base :
                          (i < j /\ Comparable(key(places[i]), key(places[j]))) =>
                              ~ (IF descending
                                 THEN PyLess(key(places[i]), key(places[j]))
                                 ELSE PyLess(key(places[j]), key(places[i])))

\* C23: when an item of the projection list is COUNT(*), at any place in the
\* list and with an alias or without, the SELECT returns one row that maps
\* that item's alias (default 'count') to the number of rows that remain
\* after WHERE, ORDER BY, LIMIT and JOIN, with columns = [alias] and
\* count = 1.
C23_CountReturnsOneRow ==
    (/\ Asks
     /\ \E i \in DOMAIN call.query.columns : call.query.columns[i].item = "COUNT AS"
     /\ execute(tables, db_file, snapshot, [call.query EXCEPT !.columns = <<Star>>]).result.success) =>
        LET items == call.query.columns
            alias == items[CHOOSE i \in DOMAIN items : items[i].item = "COUNT AS"].alias
            remaining == execute(tables, db_file, snapshot,
                                 [call.query EXCEPT !.columns = <<Star>>]).result.rows
        IN  /\ result.success
            /\ result.columns = <<alias>>
            /\ result.rows = <<[a \in {alias} |-> IntV(Len(remaining))]>>
            /\ result.count = 1

(***************************************************************************)
(* Properties of the tokenizer (SpecTokens).                               *)
(***************************************************************************)
\* C29: the barewords TRUE and FALSE, in any letter case, are tokenized as
\* BOOLEAN tokens carrying true and false, not as KEYWORD tokens, so that a
\* Boolean literal is accepted as a value in INSERT VALUES, in UPDATE SET
\* and in a WHERE atom.
C29_TrueFalseAreBooleanTokens ==
    (call.op = "parse" /\ Upper(call.text) \in {<<"T", "R", "U", "E">>, <<"F", "A", "L", "S", "E">>}) =>
        /\ result.token.type = "BOOLEAN"
        /\ result.token.value = BoolV(Upper(call.text) = <<"T", "R", "U", "E">>)
        /\ result.raised = "none"
        /\ result.value = BoolV(Upper(call.text) = <<"T", "R", "U", "E">>)

(***************************************************************************)
(* Properties of INT columns (SpecInt).                                    *)
(***************************************************************************)
\* Decimal digits of equal length compare as the numbers they write.
AtMost(digits, limit) ==
    Len(digits) < Len(limit) \/ (Len(digits) = Len(limit) /\ ~TextLess(limit, digits))

\* The integer lies in [-2^63, 2^63 - 1].
InInt64(v) ==
    \/ v.s = <<>>
    \/ /\ v.s[1] # "-"
       /\ AtMost(v.s, <<"9", "2", "2", "3", "3", "7", "2", "0", "3", "6", "8", "5", "4", "7", "7", "5", "8", "0", "7">>)
    \/ /\ v.s[1] = "-"
       /\ AtMost(Tail(v.s), <<"9", "2", "2", "3", "3", "7", "2", "0", "3", "6", "8", "5", "4", "7", "7", "5", "8", "0", "8">>)

\* C30: every value stored in an INT column of a live row is representable
\* as a 64-bit signed integer: an insert or update that supplies an integer
\* outside [-2^63, 2^63 - 1] for an INT column is rejected.
C30_IntColumnsHold64Bits ==
    \A p \in LivePositions(tables["t"]) : \A c \in {"id", "n"} :
        RowAt(tables["t"], p)[c] # Null => InInt64(RowAt(tables["t"], p)[c])

(***************************************************************************)
(* Properties of the executor (Spec): missing tables, value counts,        *)
(* failed statements.                                                      *)
(***************************************************************************)
\* The tables a statement names: its own and the one it joins.
Named(command) ==
    {command.table} \cup
    (IF command.command = "SELECT" THEN {j.table : j \in Range(command.join)} ELSE {})

\* C31: INSERT, SELECT, UPDATE, DELETE and DROP TABLE naming a table that is
\* not in the database fail with TableNotFoundError, success = false, and
\* leave every table and the snapshot unchanged.
C31_MissingTableFails ==
    \A command \in InsertCommands \cup SelectCommands \cup UpdateCommands
                   \cup DeleteCommands \cup DropCommands :
        ~(Named(command) \subseteq DOMAIN tables) =>
            LET r == execute(tables, db_file, snapshot, command)
            IN  /\ r.result = Failure(FALSE, "TableNotFoundError")
                /\ r.tables = tables
                /\ r.file = snapshot

\* A statement on a missing table has failed while another table held a row.
C31_Witness ==
    /\ call.op = "execute"
    /\ call.command \in {"INSERT", "SELECT", "UPDATE", "DELETE", "DROP"}
    /\ call.table \notin DOMAIN tables
    /\ result = Failure(FALSE, "TableNotFoundError")
    /\ \E n \in DOMAIN tables : LivePositions(tables[n]) # {}
    /\ snapshot # NoFile

\* The number of values an INSERT must carry: one per listed column, or one
\* per column of the table when it lists none.
Expected(T, command) ==
    IF command.columns # <<>> THEN Len(command.columns) ELSE Len(T.columns)

\* INSERT statements of every shape: no list, a list of one or two columns,
\* and one to three values.
CountedInserts(T) ==
    {Insert(T.name, columns, values) :
        columns \in {<<>>, <<T.columns[1].name>>, <<T.columns[1].name, T.columns[2].name>>},
        values \in {<<IntV(2)>>, <<IntV(2), Null>>, <<IntV(2), Null, Null>>}}

\* C32: an INSERT whose number of values differs from the length of its
\* column list, or from the table's column count when it has no list, returns
\* success = false, inserts no row, changes no index and does not write the
\* snapshot.
C32_ValueCountMismatchFails ==
    \A n \in DOMAIN tables :
        \A command \in {c \in InsertCommands : c.table = n} \cup CountedInserts(tables[n]) :
            Len(command.values) # Expected(tables[n], command) =>
                LET r == execute(tables, db_file, snapshot, command)
                IN  /\ ~r.result.success
                    /\ r.tables = tables
                    /\ r.file = snapshot

\* An INSERT with one value too few has failed on a table that holds a row
\* and has room for another.
C32_Witness ==
    /\ call.op = "execute"
    /\ call.command = "INSERT"
    /\ result = Failure(FALSE, "CountMismatch")
    /\ call.table \in DOMAIN tables
    /\ Len(tables[call.table].rows) = 1
    /\ LivePositions(tables[call.table]) # {}

\* C38: CREATE TABLE without IF NOT EXISTS on a name that exists returns
\* success = false and leaves the existing table's schema, rows and indexes
\* and the snapshot unchanged.
C38_CreateExistingFails ==
    \A command \in {c \in CreateCommands : ~c.if_not_exists /\ c.table \in DOMAIN tables} :
        LET r == execute(tables, db_file, snapshot, command)
        IN  /\ ~r.result.success
            /\ r.tables = tables
            /\ r.file = snapshot

\* A CREATE TABLE has failed on a table that holds a row and index entries.
C38_Witness ==
    /\ call.op = "execute"
    /\ call.command = "CREATE"
    /\ result = Failure(TRUE, "ValueError")
    /\ call.table \in DOMAIN tables
    /\ LivePositions(tables[call.table]) # {}
    /\ tables[call.table].indexes # Table(call.table, tables[call.table].columns).indexes
    /\ snapshot = Serialized(tables)

(***************************************************************************)
(* Properties of SELECT (SpecSelect): tombstones in the join table, dotted *)
(* names, result keys.                                                     *)
(***************************************************************************)
\* C33: the JOIN's scan of the join table skips tombstones: SELECT ... JOIN j
\* succeeds also after rows of j have been deleted, and every row it returns
\* is merged from a left row and a live row of j.
C33_JoinSkipsTombstones ==
    (/\ Asks
     /\ call.query.join # <<>>
     /\ call.query.join[1].table \in DOMAIN tables
     /\ SucceedsWithout("join")) =>
        LET U == tables[call.query.join[1].table]
            lefts == RowsWithout("join")
        IN  /\ result.success
            /\ call.query.columns = <<Star>> =>
                   \A i \in DOMAIN result.rows :
                       \E k \in DOMAIN lefts, p \in LivePositions(U) :
                           IsMerged(result.rows[i], lefts[k], RowAt(U, p), U.name)

\* The query holds no COUNT(*) item.
Uncounted(q) == \A i \in DOMAIN q.columns : q.columns[i].item # "COUNT AS"

\* C40: for every successful SELECT without COUNT the columns list of the
\* result and the keys of its rows agree: every key of a result row is named
\* in columns, also for SELECT * over a JOIN of two tables that share a
\* column name.
C40_RowKeysAreColumns ==
    (Asks /\ result.success /\ Uncounted(call.query)) =>
        \A i \in DOMAIN result.rows : DOMAIN result.rows[i] \subseteq Range(result.columns)

(***************************************************************************)
(* Properties of persistence (Spec).                                       *)
(***************************************************************************)
\* L holds the live rows of T compacted: no tombstone, as many slots as T
\* has live rows, and the live rows of T in their order at 0 .. n - 1.
Compacted(L, T) ==
    /\ \A i \in DOMAIN L.rows : L.rows[i] # None
    /\ Len(L.rows) = Cardinality(LivePositions(T))
    /\ L.rows = LiveRows(T)

\* Every index of T maps the key of each row to the position of that row,
\* and holds no other key.
Rebuilt(T) ==
    \A c \in DOMAIN T.indexes :
        /\ \A p \in LivePositions(T) :
              RowAt(T, p)[c] # Null =>
                  /\ IndexHas(T.indexes[c], RowAt(T, p)[c])
                  /\ T.indexes[c][Key(RowAt(T, p)[c])] = p
        /\ \A k \in DOMAIN T.indexes[c] :
              \E p \in LivePositions(T) : Key(RowAt(T, p)[c]) = k

\* C34: save followed by load yields, for every table, a row vector without
\* tombstones whose length is the number of rows that were live, holding
\* those rows in their previous relative order at positions 0 .. n - 1, and
\* indexes rebuilt so that each key maps to the new position of its row.
C34_LoadCompactsAndReindexes ==
    LET loaded == load(<<>>, TRUE, save(tables, TRUE, snapshot))
    IN  /\ loaded.raised = "none"
        /\ DOMAIN loaded.tables = DOMAIN tables
        /\ \A n \in DOMAIN tables :
              /\ Compacted(loaded.tables[n], tables[n])
              /\ DOMAIN loaded.tables[n].indexes = DOMAIN tables[n].indexes
              /\ Rebuilt(loaded.tables[n])

\* A column reference written with its table's name in front, 't.c'.
Qualify(ref, name) == IF Len(ref) = 1 THEN <<name>> \o ref ELSE ref

\* The query with the column references of one clause written as 't.c'.
Qualified(q, clause) ==
    CASE clause = "columns" ->
           [q EXCEPT !.columns = [i \in DOMAIN q.columns |->
               IF q.columns[i].item \in {"col", "col AS"}
               THEN [q.columns[i] EXCEPT !.column = Qualify(@, q.table)]
               ELSE q.columns[i]]]
      [] clause = "join" ->
           [q EXCEPT !.join = [i \in DOMAIN q.join |->
               [q.join[i] EXCEPT !.left = Qualify(@, q.table),
                                 !.right = Qualify(@, q.join[i].table)]]]
      [] clause = "where" ->
           [q EXCEPT !.where = [i \in DOMAIN q.where |->
               IF "column" \in DOMAIN q.where[i]
               THEN [q.where[i] EXCEPT !.column = Qualify(@, q.table)]
               ELSE q.where[i]]]
      [] clause = "order_by" ->
           [q EXCEPT !.order_by = [i \in DOMAIN q.order_by |->
               [q.order_by[i] EXCEPT !.column = Qualify(@, q.table)]]]

\* C35: a dotted column name t.c resolves to the column named after the
\* final '.', wherever a column is referenced: a query answers the same when
\* its projection items, its JOIN ON operands, its WHERE atoms or its ORDER
\* BY keys are written with the table's name in front.
C35_DottedNamesResolve ==
    Asks =>
        \A clause \in {"columns", "join", "where", "order_by"} :
            execute(tables, db_file, snapshot, Qualified(call.query, clause)).result = result

\* C36: after any execute() call on a file-backed Database, also one that
\* returned success = false, loading the snapshot yields the tables and the
\* live rows the Database holds in memory: a failed statement leaves no
\* in-memory change that the snapshot lacks.
C36_SnapshotMatchesMemory ==
    (db_file /\ call.op = "execute") =>
        LET loaded == load(<<>>, db_file, snapshot)
        IN  /\ loaded.raised = "none"
            /\ DOMAIN loaded.tables = DOMAIN tables
            /\ \A n \in DOMAIN tables :
                  /\ loaded.tables[n].columns = tables[n].columns
                  /\ LiveRows(loaded.tables[n]) = LiveRows(tables[n])

(***************************************************************************)
(* Properties of the parser (SpecParse).                                   *)
(***************************************************************************)
\* C37: the parser consumes the whole token stream: a statement with tokens
\* left over after a complete command, such as a misspelled clause keyword
\* after DELETE FROM t or UPDATE t SET ..., is rejected with ParseError and
\* is not executed as the command parsed from its beginning.
C37_Step ==
    (call'.op = "run" /\ call'.left > 0) =>
        /\ result' = Failure(FALSE, "ParseError")
        /\ tables' = tables
        /\ snapshot' = snapshot

C37_LeftoverTokensRejected == [][C37_Step]_vars

====
